---- MODULE Spec2Model ----
(***************************************************************************)
(* Model of the dependency-aware deployment engine of Notebook-Deployment  *)
(* (Deploy/Common/workspace_item_utilities.py, deployment_main.py,         *)
(* spark_utilities.py).                                                   *)
(*                                                                         *)
(* Three specifications share the module:                                  *)
(*   SpecSort  - sort_datapipelines applied to bounded repositories        *)
(*   SpecSubst - replace_logical_ids applied to bounded definitions        *)
(*   Spec      - the orchestrator driving deployment runs against a        *)
(*               remote workspace that answers nondeterministically        *)
(***************************************************************************)
EXTENDS Integers, Sequences, FiniteSets, TLC

\* ------------------------------------------------------------------------
\* Bounds
\* ------------------------------------------------------------------------
\* Number of data pipelines known to the lookup table of the sort.
NumPipelines == 3
\* Total number of reference activities over all pipeline definitions.
MaxRefs == 3
\* Number of repository entries seen by a substitution.
NumItems == 2
\* Number of tokens of a definition file given to a substitution.
MaxFileLen == 3

\* ------------------------------------------------------------------------
\* State
\* ------------------------------------------------------------------------
VARIABLES
    \* -- sort_datapipelines and its caller's arguments
    arg_lookup_type,    \* the lookup_type argument: "Repository" or "Deployed"
    pipeline_refs,      \* per key of unsorted_pipeline_dict: the raw ids its
                        \* definition references, in document order
    sorted,             \* outcome of the call: [status, error, order]
    \* -- replace_logical_ids and its arguments
    arg_raw_file,       \* the raw_file argument: the definition's text, a
                        \* sequence of tokens (identifiers and other text)
    repository_items,   \* repository_items_list(): entries in iteration order
    replaced,           \* outcome of the call: [status, raw_file, error]
    \* -- the orchestrator, its artifact store and the remote workspace
    remote,             \* the remote system: [workspace, items]; items
                        \* is the workspace's item list in listing order
    artifacts,          \* the artifact store: [files, notebooks_to_deploy]
    pc,                 \* the running orchestrator's position
    frame,              \* its locals: [strategy, items, work, cursor, elapsed]
    guids,              \* deploy_artifacts' guids list (the result list)
    error_messages,     \* orchestrator's error_messages list
    raised,             \* the exception in flight while Fresh cleans up
    outcome,            \* how the latest run ended: [status, errors]
    log,                \* requests sent to the remote system in this run
                        \* (the polls of an operation are counted in op)
    op,                 \* the accepted-but-asynchronous submission of the
                        \* artifact being deployed
    completed,          \* create/update calls of this run that returned
    faults,             \* failures the remote system has answered with
    \* -- the pauses of the loops that send requests
    pacing,             \* [strategy, listed, stale, notebooks, pipelines,
                        \*  stage, i, calls]: the loop that runs, its
                        \*  counter i, and the mutating calls sent since
                        \*  the last pause
    \* -- find_referenced_datapipelines and its arguments
    scan,               \* [lookup_type, activities, parameters, result]:
                        \*  the authored activities and parameters of the
                        \*  definition, and the outcome of the call
    \* -- handle_async_creation, its response and the remote operation
    polling,            \* [location, header, retry_after, at, slept,
                        \*  operation_status, operation, queries]
    \* -- sort_datapipelines in deletion mode over a deployed workspace
    unpublish           \* [refs, candidates, sorted]: the references of
                        \*  every deployed pipeline's definition, the
                        \*  pipelines to delete in dict order, the result

sortVars == <<arg_lookup_type, pipeline_refs, sorted>>
substVars == <<arg_raw_file, repository_items, replaced>>
deployVars == <<remote, artifacts, pc, frame, guids, error_messages, raised,
                outcome, log, op, completed, faults>>
vars == <<sortVars, substVars, deployVars, pacing, scan, polling, unpublish>>

\* ------------------------------------------------------------------------
\* Values of the orchestrator's state when no run is in progress
\* ------------------------------------------------------------------------
NoError == [phase |-> "none", cause |-> "none"]
NoOp == [caller |-> "none", request |-> "none", type |-> "none", name |-> 0,
         target |-> <<"", 0>>, events |-> <<>>, status |-> "none",
         result_id |-> <<"", 0>>, guids_before |-> 0]
IdleFrame == [profile |-> "unread", strategy |-> "none", items |-> <<>>, work |-> <<>>, cursor |-> 0,
              elapsed |-> 0, publish_status |-> "none", deployed_count |-> 0,
              skipped_count |-> 0]
NotRun == [status |-> "none", errors |-> <<>>]
NoPacing == [strategy |-> "none", listed |-> 0, stale |-> 0, notebooks |-> 0,
             pipelines |-> 0, stage |-> "none", i |-> 0, calls |-> 0]
PacingIdle == pacing = NoPacing
NotScanned == [status |-> "none", names |-> <<>>]
NoScan == [lookup_type |-> "none", activities |-> <<>>, parameters |-> <<>>,
           result |-> NotScanned]
ScanIdle == scan = NoScan
NoPolling == [location |-> FALSE, header |-> 0, retry_after |-> 0, at |-> "idle",
              slept |-> 0, operation_status |-> "none", operation |-> "none",
              queries |-> 0]
PollingIdle == polling = NoPolling
NoUnpublish == [refs |-> <<>>, candidates |-> <<>>,
                sorted |-> [status |-> "none", error |-> "", order |-> <<>>]]
UnpublishIdle == unpublish = NoUnpublish
DeployIdle ==
    /\ remote = [workspace |-> FALSE, items |-> <<>>]
    /\ artifacts = [files |-> <<>>, notebooks_to_deploy |-> {}]
    /\ pc = "idle"
    /\ frame = IdleFrame
    /\ guids = <<>>
    /\ error_messages = <<>>
    /\ raised = NoError
    /\ outcome = NotRun
    /\ log = <<>>
    /\ op = NoOp
    /\ completed = <<>>
    /\ faults = 0

\* ------------------------------------------------------------------------
\* Generic helpers
\* ------------------------------------------------------------------------
Range(s) == {s[i] : i \in 1..Len(s)}

RECURSIVE Reverse(_)
\* Python's seq[::-1]
Reverse(s) == IF s = <<>> THEN <<>> ELSE Append(Reverse(Tail(s)), Head(s))

\* Python's [x for x in s if x in keep]
RECURSIVE FilterIn(_, _)
FilterIn(s, keep) ==
    IF s = <<>> THEN <<>>
    ELSE IF Head(s) \in keep THEN <<Head(s)>> \o FilterIn(Tail(s), keep)
         ELSE FilterIn(Tail(s), keep)

\* Position of the first occurrence of x in s (0 when absent).
IndexOf(s, x) ==
    IF x \in Range(s) THEN CHOOSE i \in 1..Len(s) : s[i] = x /\ \A j \in 1..(i-1) : s[j] # x
    ELSE 0

\* Number of positions of s holding x.
Count(s, x) == Cardinality({i \in 1..Len(s) : s[i] = x})

\* ------------------------------------------------------------------------
\* Identifiers.  Display names of pipelines are 1..NumPipelines; the logical
\* id (.platform config.logicalId) and the live id (remote "id") of an item
\* are distinct values in disjoint ranges, as GUIDs from two generators are.
\* ------------------------------------------------------------------------
None == 0
LogicalId(name) == <<"logical", name>>
\* An identifier that no lookup table holds.
UnknownId == <<"unknown", 0>>

\* The sort has not been called.
NotSorted == [status |-> "none", error |-> "", order |-> <<>>]
SortIdle ==
    /\ arg_lookup_type = "Repository"
    /\ pipeline_refs = <<>>
    /\ sorted = NotSorted

\* ------------------------------------------------------------------------
\* Python dict / defaultdict with insertion order: ord lists the keys in
\* insertion order, val maps each key to its value.
\* ------------------------------------------------------------------------
EmptyDict == [ord |-> <<>>, val |-> <<>>]
DHas(d, k) == k \in Range(d.ord)
DGet(d, k, default) == IF DHas(d, k) THEN d.val[IndexOf(d.ord, k)] ELSE default
DSet(d, k, v) ==
    IF DHas(d, k)
    THEN [d EXCEPT !.val[IndexOf(d.ord, k)] = v]
    ELSE [ord |-> Append(d.ord, k), val |-> Append(d.val, v)]

\* ------------------------------------------------------------------------
\* Definition documents: a tagged union of mapping / sequence / scalar nodes
\* (json.loads output).  A mapping keeps its (key, value) pairs in order.
\* Scalars are text strings ("string") or GUID strings ("id").
\* ------------------------------------------------------------------------
Mapping(pairs) == [node |-> "mapping", items |-> pairs]
Listing(elems) == [node |-> "sequence", items |-> elems]
Text(s) == [node |-> "string", items |-> <<s>>]
IdText(id) == [node |-> "id", items |-> <<id>>]

\* str.strip().lower() on the strings that occur in definitions.
StripLower(s) ==
    CASE s = "Type" -> "type"
      [] s = " type " -> "type"
      [] s = "ExecutePipeline" -> "executepipeline"
      [] s = "InvokePipeline" -> "invokepipeline"
      [] s = " InvokePipeline" -> "invokepipeline"
      [] OTHER -> s

\* Marker for a KeyError / AttributeError raised during the walk.
ScanError == <<"error", 0>>
\* referenced_id = None
NoRef == <<"none", 0>>

\* obj[key]: the value of the mapping's pair with that key; a KeyError
\* (TypeError on a non-mapping) otherwise.
Subscript(obj, key) ==
    IF obj.node = "mapping" /\ \E i \in 1..Len(obj.items) : obj.items[i][1] = key
    THEN LET i == CHOOSE j \in 1..Len(obj.items) : obj.items[j][1] = key
         IN obj.items[i][2]
    ELSE [node |-> "error", items |-> <<>>]

\* The identifier read from the nested field: a GUID string compares equal
\* to a table key; any other value matches no table entry.
IdOf(n) ==
    CASE n.node = "error" -> ScanError
      [] n.node = "id" -> n.items[1]
      [] OTHER -> UnknownId

\* Lines 999-1005: the referenced id of one (key, value) pair of a mapping.
ReferencedId(input_object, key, value) ==
    IF StripLower(key) # "type" THEN NoRef
    ELSE IF value.node \notin {"string", "id"} THEN ScanError
    ELSE IF value.node = "id" THEN NoRef
    ELSE IF StripLower(value.items[1]) = "executepipeline"
         THEN IdOf(Subscript(Subscript(Subscript(input_object, "typeProperties"),
                                       "pipeline"), "referenceName"))
    ELSE IF StripLower(value.items[1]) = "invokepipeline"
         THEN IdOf(Subscript(Subscript(input_object, "typeProperties"), "pipelineId"))
    ELSE NoRef

RECURSIVE find_execute_pipeline_activities(_)
RECURSIVE ScanPairs(_, _)
RECURSIVE ScanElems(_, _)
\* The raw referenced ids of a document, in the order the walk meets them.
find_execute_pipeline_activities(input_object) ==
    CASE input_object.node = "mapping" -> ScanPairs(input_object, 1)
      [] input_object.node = "sequence" -> ScanElems(input_object, 1)
      [] OTHER -> <<>>

\* for key, value in input_object.items(), from the i-th pair on
ScanPairs(input_object, i) ==
    IF i > Len(input_object.items) THEN <<>>
    ELSE LET key == input_object.items[i][1]
             value == input_object.items[i][2]
             referenced_id == ReferencedId(input_object, key, value)
         IN (IF referenced_id # NoRef THEN <<referenced_id>>
             ELSE find_execute_pipeline_activities(value))
            \o ScanPairs(input_object, i + 1)

\* for item in input_object, from the i-th element on
ScanElems(input_object, i) ==
    IF i > Len(input_object.items) THEN <<>>
    ELSE find_execute_pipeline_activities(input_object.items[i])
         \o ScanElems(input_object, i + 1)

\* ------------------------------------------------------------------------
\* Identifier Resolver.  lookup_dict.get(item_type) is a sequence of
\* [name, key] entries in table order, key being the logical id
\* (Repository) or the live id (Deployed) of the entry.
\* ------------------------------------------------------------------------
\* Mutant: the last matching entry wins
convert_id_to_name_Last(generic_id, table) ==
    IF \E i \in 1..Len(table) : table[i].key = generic_id
    THEN table[CHOOSE i \in 1..Len(table) :
                  /\ table[i].key = generic_id
                  /\ \A j \in (i+1)..Len(table) : table[j].key # generic_id].name
    ELSE None

\* Lines 927-967: the first entry whose id equals generic_id, or None
convert_id_to_name(generic_id, table) ==
    IF \E i \in 1..Len(table) : table[i].key = generic_id
    THEN table[CHOOSE i \in 1..Len(table) :
                  /\ table[i].key = generic_id
                  /\ \A j \in 1..(i-1) : table[j].key # generic_id].name
    ELSE None

RECURSIVE ResolveAll(_, _)
\* reference_list: the resolved names, not-found references left out
ResolveAll(ids, table) ==
    IF ids = <<>> THEN <<>>
    ELSE LET referenced_name == convert_id_to_name(Head(ids), table)
         IN (IF referenced_name # None THEN <<referenced_name>> ELSE <<>>)
            \o ResolveAll(Tail(ids), table)

\* [ok, names]: ok is FALSE when the walk raised.
find_referenced_datapipelines(item_content_dict, table) ==
    LET ids == find_execute_pipeline_activities(item_content_dict)
    IN IF ScanError \in Range(ids)
       THEN [ok |-> FALSE, names |-> <<>>]
       ELSE [ok |-> TRUE, names |-> ResolveAll(ids, table)]

\* ------------------------------------------------------------------------
\* Dependency Graph Builder & Topological Sorter (sort_datapipelines).
\* unsorted_pipeline_dict is a sequence of [name, content] in dict order.
\* ------------------------------------------------------------------------
IsDeployed(lookup_type) == lookup_type = "Deployed"

RECURSIVE AddReferences_Reversed(_, _, _)
\* Mutant: the edge is recorded from the referencing item to the referenced one.
AddReferences_Reversed(st, item_name, referenced_pipelines) ==
    IF referenced_pipelines = <<>> THEN st
    ELSE LET referenced_name == Head(referenced_pipelines)
             graph == DSet(st.graph, item_name,
                           Append(DGet(st.graph, item_name, <<>>), referenced_name))
             in_degree == DSet(st.in_degree, referenced_name,
                               DGet(st.in_degree, referenced_name, 0) + 1)
         IN AddReferences_Reversed([st EXCEPT !.graph = graph, !.in_degree = in_degree],
                                   item_name, Tail(referenced_pipelines))

RECURSIVE AddReferences(_, _, _)
\* Lines 1282-1284: for referenced_name in referenced_pipelines
AddReferences(st, item_name, referenced_pipelines) ==
    IF referenced_pipelines = <<>> THEN st
    ELSE LET referenced_name == Head(referenced_pipelines)
             graph == DSet(st.graph, referenced_name,
                           Append(DGet(st.graph, referenced_name, <<>>), item_name))
             in_degree == DSet(st.in_degree, item_name,
                               DGet(st.in_degree, item_name, 0) + 1)
         IN AddReferences([st EXCEPT !.graph = graph, !.in_degree = in_degree],
                          item_name, Tail(referenced_pipelines))

RECURSIVE BuildGraph(_, _, _, _, _)
\* Lines 1266-1291: Step 2, from the i-th item of the dict on
BuildGraph(st, unsorted_pipeline_dict, lookup_type, table, i) ==
    IF i > Len(unsorted_pipeline_dict) \/ ~st.ok THEN st
    ELSE LET item_name == unsorted_pipeline_dict[i].name
             found == find_referenced_datapipelines(unsorted_pipeline_dict[i].content, table)
             st1 == [st EXCEPT !.unpublish_items =
                        IF IsDeployed(lookup_type) THEN Append(@, item_name) ELSE @]
             st2 == AddReferences(st1, item_name, found.names)
             st3 == IF DHas(st2.in_degree, item_name) THEN st2
                    ELSE [st2 EXCEPT !.in_degree = DSet(@, item_name, 0)]
         IN IF ~found.ok THEN [st1 EXCEPT !.ok = FALSE]
            ELSE BuildGraph(st3, unsorted_pipeline_dict, lookup_type, table, i + 1)

RECURSIVE AdjustNeighbors_Always(_, _)
\* Mutant: the in-degree of every edge target is incremented once more
AdjustNeighbors_Always(in_degree, neighbors) ==
    IF neighbors = <<>> THEN in_degree
    ELSE AdjustNeighbors_Always(
             DSet(in_degree, Head(neighbors), DGet(in_degree, Head(neighbors), 0) + 1),
             Tail(neighbors))

RECURSIVE AdjustNeighbors(_, _)
\* Lines 1299-1301: for neighbor in graph[item_name]
AdjustNeighbors(in_degree, neighbors) ==
    IF neighbors = <<>> THEN in_degree
    ELSE AdjustNeighbors(
             IF ~DHas(in_degree, Head(neighbors))
             THEN DSet(in_degree, Head(neighbors), DGet(in_degree, Head(neighbors), 0) + 1)
             ELSE in_degree,
             Tail(neighbors))

RECURSIVE AdjustInDegree(_, _, _)
\* Lines 1296-1301: for item_name in graph, from the i-th key on
AdjustInDegree(graph, in_degree, i) ==
    IF i > Len(graph.ord) THEN in_degree
    ELSE LET item_name == graph.ord[i]
             d1 == IF ~DHas(in_degree, item_name) THEN DSet(in_degree, item_name, 0)
                   ELSE in_degree
         IN AdjustInDegree(graph, AdjustNeighbors(d1, graph.val[i]), i + 1)

RECURSIVE RelaxNeighbors(_, _)
\* Lines 1313-1316: for neighbor in graph[item_name]; k = [queue, in_degree]
RelaxNeighbors(k, neighbors) ==
    IF neighbors = <<>> THEN k
    ELSE LET neighbor == Head(neighbors)
             deg == DGet(k.in_degree, neighbor, 0) - 1
         IN RelaxNeighbors([queue |-> IF deg = 0 THEN Append(k.queue, neighbor) ELSE k.queue,
                            in_degree |-> DSet(k.in_degree, neighbor, deg)],
                           Tail(neighbors))

RECURSIVE KahnLoop(_, _, _, _)
\* Lines 1309-1316: while zero_in_degree_queue
KahnLoop(zero_in_degree_queue, sorted_items, graph, in_degree) ==
    IF zero_in_degree_queue = <<>>
    THEN [sorted_items |-> sorted_items, in_degree |-> in_degree]
    ELSE LET item_name == Head(zero_in_degree_queue)
             k == RelaxNeighbors([queue |-> Tail(zero_in_degree_queue),
                                  in_degree |-> in_degree],
                                 DGet(graph, item_name, <<>>))
         IN KahnLoop(k.queue, Append(sorted_items, item_name), graph, k.in_degree)

\* Mutant: the initial queue holds the zero in-degree keys in reverse dict order
ZeroInDegree_Reversed(in_degree) ==
    FilterIn(Reverse(in_degree.ord), {k \in Range(in_degree.ord) : DGet(in_degree, k, 0) = 0})

\* Line 1306: the keys of in_degree with value 0, in dict order
ZeroInDegree(in_degree) ==
    FilterIn(in_degree.ord, {k \in Range(in_degree.ord) : DGet(in_degree, k, 0) = 0})

\* Mutant: the length comparison is dropped.
CycleDetected_Never(sorted_items, in_degree) == FALSE

\* Line 1318: the cycle test
CycleDetected(sorted_items, in_degree) == Len(sorted_items) # Len(in_degree.ord)

\* Mutant: the list is filtered but not inverted.
DeployedOrder_NoReverse(sorted_items, unpublish_items) ==
    FilterIn(sorted_items, Range(unpublish_items))

\* Lines 1322-1324: restrict to the unpublish list and invert
DeployedOrder(sorted_items, unpublish_items) ==
    Reverse(FilterIn(sorted_items, Range(unpublish_items)))

\* Lines 1243-1329.  [status, order]: status "ok" with the order, or
\* "error" (RuntimeError) with no order; error names the cause.
sort_datapipelines(unsorted_pipeline_dict, lookup_type, table) ==
    LET st0 == [graph |-> EmptyDict, in_degree |-> EmptyDict,
                unpublish_items |-> <<>>, ok |-> TRUE]
        st == BuildGraph(st0, unsorted_pipeline_dict, lookup_type, table, 1)
        in_degree == IF IsDeployed(lookup_type)
                     THEN AdjustInDegree(st.graph, st.in_degree, 1)
                     ELSE st.in_degree
        k == KahnLoop(ZeroInDegree(in_degree), <<>>, st.graph, in_degree)
    IN IF ~st.ok THEN [status |-> "error", error |-> "scan", order |-> <<>>]
       ELSE IF CycleDetected(k.sorted_items, k.in_degree)
            THEN [status |-> "error", error |-> "cycle", order |-> <<>>]
       ELSE [status |-> "ok", error |-> "",
             order |-> IF IsDeployed(lookup_type)
                       THEN DeployedOrder(k.sorted_items, st.unpublish_items)
                       ELSE k.sorted_items]

\* ------------------------------------------------------------------------
\* Pre-upload substitution (replace_logical_ids).  A file is a sequence of
\* tokens; an identifier is one token, since a GUID string has a fixed
\* layout and cannot overlap another one.  str.replace(old, new) rewrites
\* every token equal to old.
\* ------------------------------------------------------------------------
\* "00000000-0000-0000-0000-000000000000"
ZeroGuid == <<"zero", 0>>
\* item_guid = "" : the entry is not deployed
NoGuid == <<"", 0>>
WorkspaceId(w) == <<"workspace", w>>
OtherText(i) == <<"text", i>>

\* Mutant: only the first occurrence is rewritten (str.replace(old, new, 1)).
StrReplace_First(raw_file, old, new) ==
    [i \in 1..Len(raw_file) |->
        IF raw_file[i] = old /\ \A j \in 1..(i-1) : raw_file[j] # old THEN new
        ELSE raw_file[i]]

\* raw_file.replace(old, new)
StrReplace(raw_file, old, new) ==
    [i \in 1..Len(raw_file) |-> IF raw_file[i] = old THEN new ELSE raw_file[i]]

\* Mutant: an entry without a live id is taken as deployed
NotDeployed_Never(item_guid) == FALSE

\* Line 720: if not item_guid
NotDeployed(item_guid) == item_guid = NoGuid

RECURSIVE ReplaceEntries(_, _, _)
\* Lines 713-723: the loop over the repository entries, from the i-th on;
\* st = [status, raw_file, error]
ReplaceEntries(st, items, i) ==
    IF i > Len(items) \/ st.status = "error" THEN st
    ELSE LET logical_id == items[i].logical_id
             item_guid == items[i].guid
         IN IF logical_id # NoGuid /\ logical_id \in Range(st.raw_file)
            THEN IF NotDeployed(item_guid)
                 THEN [status |-> "error", raw_file |-> <<>>, error |-> logical_id]
                 ELSE ReplaceEntries([st EXCEPT !.raw_file =
                                         StrReplace(@, logical_id, item_guid)],
                                     items, i + 1)
            ELSE ReplaceEntries(st, items, i + 1)

\* Mutant: the placeholder is rewritten only in a file that holds a logical id
replace_logical_ids_IfAny(raw_file, items, workspace_id) ==
    LET st == ReplaceEntries([status |-> "ok", raw_file |-> raw_file, error |-> NoGuid],
                             items, 1)
    IN IF st.status = "error" \/ st.raw_file = raw_file THEN st
       ELSE [st EXCEPT !.raw_file = StrReplace(@, ZeroGuid, workspace_id)]

\* Lines 693-732.  [status, raw_file, error]: "ok" with the rewritten text,
\* or "error" naming the logical id that is not yet deployed.
replace_logical_ids(raw_file, items, workspace_id) ==
    LET st == ReplaceEntries([status |-> "ok", raw_file |-> raw_file, error |-> NoGuid],
                             items, 1)
    IN IF st.status = "error" THEN st
       ELSE [st EXCEPT !.raw_file = StrReplace(@, ZeroGuid, workspace_id)]

\* ------------------------------------------------------------------------
\* SpecSubst: replace_logical_ids called on bounded files and repositories.
\* ------------------------------------------------------------------------
Items == 1..NumItems
SubstGuid(name) == <<"guid", name>>
SubstWorkspace == WorkspaceId(1)

\* The tokens a file may hold: a logical id of the repository, the reserved
\* placeholder, an identifier of something else, and other text.
FileTokens == {LogicalId(n) : n \in Items} \cup {ZeroGuid, UnknownId, OtherText(1)}

\* The orders in which the entries may be met
ItemOrders == {o \in [Items -> Items] : \A a \in Items, b \in Items : a # b => o[a] # o[b]}

NotReplaced == [status |-> "none", raw_file |-> <<>>, error |-> NoGuid]

SubstIdle ==
    /\ arg_raw_file = <<>>
    /\ repository_items = <<>>
    /\ replaced = NotReplaced

SubstInit ==
    /\ arg_raw_file = <<>>
    /\ \E o \in ItemOrders, deployed \in SUBSET Items :
          repository_items =
              [i \in Items |->
                  [name |-> o[i], logical_id |-> LogicalId(o[i]),
                   guid |-> IF o[i] \in deployed THEN SubstGuid(o[i]) ELSE NoGuid]]
    /\ replaced = NotReplaced
    /\ SortIdle
    /\ DeployIdle
    /\ PacingIdle
    /\ ScanIdle
    /\ PollingIdle
    /\ UnpublishIdle

\* One more token of the definition file
AppendToken(t) ==
    /\ replaced.status = "none"
    /\ Len(arg_raw_file) < MaxFileLen
    /\ arg_raw_file' = Append(arg_raw_file, t)
    /\ UNCHANGED <<repository_items, replaced, sortVars, deployVars, pacing, scan, polling, unpublish>>

\* The call replace_logical_ids(raw_file, ...)
Substitute ==
    /\ replaced.status = "none"
    /\ replaced' = replace_logical_ids(arg_raw_file, repository_items, SubstWorkspace)
    /\ UNCHANGED <<arg_raw_file, repository_items, sortVars, deployVars, pacing, scan, polling, unpublish>>

SubstNext ==
    \/ \E t \in FileTokens : AppendToken(t)
    \/ Substitute

SpecSubst == SubstInit /\ [][SubstNext]_vars

\* The repository entries whose logical id is the token t
EntriesOf(t) == {i \in 1..Len(repository_items) : repository_items[i].logical_id = t}
SubstCalled == replaced.status # "none"

\* C6: when the substitution returns, every occurrence of a logical id L of
\* the repository is replaced by the live id G of L's entry, the reserved
\* placeholder by the workspace id, and every other token is the input's,
\* whatever the number and order of the repository entries; it returns
\* whenever every logical id in the file has a live id.
C6_SubstitutionRoundTrip ==
    SubstCalled =>
        /\ (\A i \in 1..Len(arg_raw_file) : \A e \in EntriesOf(arg_raw_file[i]) :
                repository_items[e].guid # NoGuid) => replaced.status = "ok"
        /\ replaced.status = "ok" =>
             /\ Len(replaced.raw_file) = Len(arg_raw_file)
             /\ \A i \in 1..Len(arg_raw_file) :
                  LET t == arg_raw_file[i]
                  IN CASE EntriesOf(t) # {} ->
                            \A e \in EntriesOf(t) :
                                replaced.raw_file[i] = repository_items[e].guid
                       [] t = ZeroGuid -> replaced.raw_file[i] = SubstWorkspace
                       [] OTHER -> replaced.raw_file[i] = t

\* A file holding one logical id twice and another one once was rewritten,
\* the entries being met in descending order.
C6_Witness ==
    /\ replaced.status = "ok"
    /\ repository_items[1].name = NumItems
    /\ \E i \in 1..Len(arg_raw_file), j \in 1..Len(arg_raw_file), k \in 1..Len(arg_raw_file) :
          /\ i < j /\ arg_raw_file[i] = arg_raw_file[j]
          /\ EntriesOf(arg_raw_file[i]) # {} /\ EntriesOf(arg_raw_file[k]) # {}
          /\ arg_raw_file[k] # arg_raw_file[i]

\* ------------------------------------------------------------------------
\* Pipeline definitions as authored: pipeline-content.json with one activity
\* per reference, the legacy shape (ExecutePipeline, reference under
\* typeProperties.pipeline.referenceName) at odd positions and the current
\* shape (InvokePipeline, typeProperties.pipelineId) at even positions.
\* ------------------------------------------------------------------------
ExecuteActivity(id) ==
    Mapping(<< <<"name", Text("Run child")>>,
               <<"type", Text("ExecutePipeline")>>,
               <<"typeProperties",
                 Mapping(<< <<"pipeline",
                              Mapping(<< <<"referenceName", IdText(id)>>,
                                         <<"type", Text("PipelineReference")>> >>)>>,
                            <<"waitOnCompletion", Text("true")>> >>)>> >>)

InvokeActivity(id) ==
    Mapping(<< <<"name", Text("Invoke child")>>,
               <<"Type", Text("InvokePipeline")>>,
               <<"typeProperties",
                 Mapping(<< <<"operationType", Text("InvokeFabricPipeline")>>,
                            <<"pipelineId", IdText(id)>> >>)>> >>)

PipelineContent(ids) ==
    Mapping(<< <<"properties",
                 Mapping(<< <<"activities",
                              Listing([i \in 1..Len(ids) |->
                                         IF i % 2 = 1 THEN ExecuteActivity(ids[i])
                                         ELSE InvokeActivity(ids[i])])>> >>)>> >>)

\* ------------------------------------------------------------------------
\* SpecSort: sort_datapipelines called on bounded inputs.  The dict keys are
\* the pipelines 1..m in dict order (any other key order is a renaming); the
\* lookup table holds all of 1..NumPipelines, so m+1..NumPipelines are
\* artifacts outside the set being sorted.
\* ------------------------------------------------------------------------
Pipelines == 1..NumPipelines
DeployedGuid(name) == <<"guid", name>>

\* lookup_dict.get(item_type) with its lookup_key, for the sort's inputs
SortTable(lt) ==
    [p \in Pipelines |->
        [name |-> p, key |-> IF IsDeployed(lt) THEN DeployedGuid(p) ELSE LogicalId(p)]]

\* The id a definition holds for target t (None: an id no table resolves)
RefId(lt, t) ==
    IF t = None THEN UnknownId
    ELSE IF IsDeployed(lt) THEN DeployedGuid(t) ELSE LogicalId(t)

Keys == DOMAIN pipeline_refs
UnsortedPipelineDict ==
    [p \in Keys |-> [name |-> p, content |-> PipelineContent(pipeline_refs[p])]]

RECURSIVE SumLen(_, _)
SumLen(f, i) == IF i > Len(f) THEN 0 ELSE Len(f[i]) + SumLen(f, i + 1)

SortInit ==
    /\ arg_lookup_type \in {"Repository", "Deployed"}
    /\ \E m \in Pipelines : pipeline_refs = [p \in 1..m |-> <<>>]
    /\ sorted = NotSorted
    /\ SubstIdle
    /\ DeployIdle
    /\ PacingIdle
    /\ ScanIdle
    /\ PollingIdle
    /\ UnpublishIdle

\* An author adds one reference activity to pipeline p's definition; at most
\* one activity of the repository holds an id that no table resolves.
AddReference(p, t) ==
    /\ sorted.status = "none"
    /\ SumLen(pipeline_refs, 1) < MaxRefs
    /\ t = None => \A q \in Keys : UnknownId \notin Range(pipeline_refs[q])
    /\ pipeline_refs' = [pipeline_refs EXCEPT ![p] = Append(@, RefId(arg_lookup_type, t))]
    /\ UNCHANGED <<arg_lookup_type, sorted, substVars, deployVars, pacing, scan, polling, unpublish>>

\* The call sort_datapipelines(unsorted_pipeline_dict, lookup_type, ...)
Sort ==
    /\ sorted.status = "none"
    /\ sorted' = sort_datapipelines(UnsortedPipelineDict, arg_lookup_type, SortTable(arg_lookup_type))
    /\ UNCHANGED <<arg_lookup_type, pipeline_refs, substVars, deployVars, pacing, scan, polling, unpublish>>

SortNext ==
    \/ \E p \in Keys, t \in Pipelines \cup {None} : AddReference(p, t)
    \/ Sort

SpecSort == SortInit /\ [][SortNext]_vars

\* ------------------------------------------------------------------------
\* The reference graph of the sort's input, read off the authored
\* definitions: an edge <<u, v>> says that v's definition references u, so
\* u must be created before v.
\* ------------------------------------------------------------------------
TargetsOf(v) == {t \in Pipelines : RefId(arg_lookup_type, t) \in Range(pipeline_refs[v])}
RefEdges == {e \in Pipelines \X Keys : e[1] \in TargetsOf(e[2])}

RECURSIVE HasCycle(_, _)
\* A graph has a cycle exactly when stripping nodes without a predecessor,
\* round after round, leaves some nodes behind.
HasCycle(nodes, edges) ==
    IF nodes = {} THEN FALSE
    ELSE LET sources == {v \in nodes : ~ \E e \in edges : e[2] = v /\ e[1] \in nodes}
         IN IF sources = {} THEN TRUE ELSE HasCycle(nodes \ sources, edges)

Cyclic == HasCycle(Pipelines, RefEdges)
\* Every reference that resolves names a key of the dict being sorted
ClosedGraph == \A e \in RefEdges : e[1] \in Keys
SortCalled == sorted.status # "none"
Before(order, a, b) == IndexOf(order, a) # 0 /\ IndexOf(order, a) < IndexOf(order, b)
EachKeyOnce(order) == Range(order) = Keys /\ Len(order) = Cardinality(Keys)

\* C1: in creation mode ("Repository"), for an acyclic reference graph over
\* the input pipelines the sort succeeds, the result holds every input
\* pipeline exactly once, and for every edge u -> v (v references u) u comes
\* strictly before v; PipelineA (1) referencing PipelineB (2) sorts as
\* [PipelineB, PipelineA].
C1_CreationOrder ==
    (SortCalled /\ arg_lookup_type = "Repository" /\ ClosedGraph /\ ~Cyclic) =>
        /\ sorted.status = "ok"
        /\ EachKeyOnce(sorted.order)
        /\ \A e \in RefEdges : Before(sorted.order, e[1], e[2])
        /\ (pipeline_refs = << <<LogicalId(2)>>, <<>> >>) => sorted.order = <<2, 1>>

\* A chain 1 <- 2 <- 3 of references has been sorted for creation.
C1_Witness ==
    /\ SortCalled /\ arg_lookup_type = "Repository" /\ ~Cyclic /\ ClosedGraph
    /\ Cardinality(RefEdges) >= 2
    /\ \E e \in RefEdges, f \in RefEdges : e[2] = f[1]
    /\ sorted.status = "ok"

\* C2: in deletion mode ("Deployed") with candidate set S = the dict keys,
\* for an acyclic graph the result holds exactly the members of S, each
\* once, and for every edge u -> v with both ends in S, v comes strictly
\* before u; deleting PipelineA (1, references 2) and PipelineB (2) gives
\* [PipelineA, PipelineB].
C2_DeletionOrder ==
    (SortCalled /\ arg_lookup_type = "Deployed" /\ ~Cyclic) =>
        /\ sorted.status = "ok"
        /\ EachKeyOnce(sorted.order)
        /\ \A e \in RefEdges : e[1] \in Keys => Before(sorted.order, e[2], e[1])
        /\ (pipeline_refs = << <<DeployedGuid(2)>>, <<>> >>) => sorted.order = <<1, 2>>

\* A deletion sort of a candidate set with an edge inside it and a reference
\* to a deployed pipeline outside it.
C2_Witness ==
    /\ SortCalled /\ arg_lookup_type = "Deployed" /\ ~Cyclic
    /\ \E e \in RefEdges : e[1] \in Keys
    /\ \E e \in RefEdges : e[1] \notin Keys
    /\ sorted.status = "ok" /\ Len(sorted.order) >= 2

\* C3: a reference graph with a cycle (a self reference, A -> B -> A,
\* X -> Y -> Z -> X) makes the sort fail with the cycle error in both modes,
\* and no order is returned.
C3_CycleFails ==
    (SortCalled /\ Cyclic) =>
        /\ sorted.status = "error"
        /\ sorted.error = "cycle"
        /\ sorted.order = <<>>

\* The three-cycle 1 -> 2 -> 3 -> 1 was sorted in deletion mode and failed.
C3_Witness ==
    /\ SortCalled /\ arg_lookup_type = "Deployed"
    /\ {<<1, 2>>, <<2, 3>>, <<3, 1>>} \subseteq RefEdges
    /\ sorted.status = "error"

\* ------------------------------------------------------------------------
\* The deployment run: orchestrator() against one workspace of the remote
\* system and one artifact store.  Display names are numbers: pipelines are
\* 1..DeployPipelines (the names the sort works on), the other artifacts
\* have names of their own.
\* ------------------------------------------------------------------------
DeployPipelines == 2
NumNotebooks == 2
MaxPolls == 2
MaxFaults == 1

\* wait_for_items_deletion(..., max_wait_time=300, check_interval=30)
max_wait_time == 300
check_interval == 30
\* poll_environment_publish_status(..., polling_interval=60, maximum_duration=1200)
maximum_duration == 1200
polling_interval == 60
\* "5 minutes for the first 10 minutes"
first_phase == 600
first_interval == 300

PipelineNames == 1..DeployPipelines
NotebookName(i) == 10 + i
NotebookNames == {NotebookName(i) : i \in 1..NumNotebooks}
\* a notebook of the workspace that the artifact store does not hold
StaleNotebook == 19
LakehouseName == 21
EventhouseName == 31
\* env_name = "Spark_Environment"
env_name == 41
\* a display name that ends with "_Old"
OldSuffixed(n) == 100 + n
EndsWithOld(name) == name > 100

fixedVars == <<sortVars, substVars, artifacts, pacing, scan, polling, unpublish>>

\* ------------------------------------------------------------------------
\* The remote system.  Items are listed in creation order; the identifier of
\* a new item is fresh.  A create of a (displayName, type) the workspace
\* holds is rejected, as is an update or delete of an identifier it does not
\* hold; any request may be rejected for reasons of the remote's own.
\* ------------------------------------------------------------------------
Guid(n) == <<"guid", n>>
\* No workspace of that name
NoWorkspace == [workspace |-> FALSE, items |-> <<>>]
Item(id, name, type) == [id |-> id, displayName |-> name, type |-> type]
HasItem(items, name, type) ==
    \E i \in 1..Len(items) : items[i].displayName = name /\ items[i].type = type
HasId(items, id) == \E i \in 1..Len(items) : items[i].id = id
\* The identifiers in use: those of the workspace's items and those the
\* running orchestrator holds
UsedIds ==
    {remote.items[i].id : i \in 1..Len(remote.items)}
    \cup {frame.items[i].id : i \in 1..Len(frame.items)}
    \cup {guids[i].artifact_guid : i \in 1..Len(guids)}
    \cup {log[i].id : i \in 1..Len(log)}
    \cup {op.target, op.result_id}
\* The identifier of the next item created: one that is not in use
FreshId ==
    Guid(CHOOSE n \in 1..(Cardinality(UsedIds) + 1) :
            /\ Guid(n) \notin UsedIds
            /\ \A m \in 1..(n-1) : Guid(m) \in UsedIds)
RemoteCreate(r, name, type) ==
    [r EXCEPT !.items = Append(@, Item(FreshId, name, type))]
RemoteDelete(r, id) ==
    [r EXCEPT !.items = SelectSeq(@, LAMBDA it : it.id # id)]

CreateResponses(r, name, type) ==
    IF HasItem(r.items, name, type) THEN {"conflict"}
    ELSE {"created", "accepted", "accepted_no_location", "rejected"}
UpdateResponses(r, id) ==
    IF HasId(r.items, id) THEN {"ok", "accepted", "accepted_no_location", "rejected"}
    ELSE {"not_found"}
DeleteResponses(r, id) ==
    IF HasId(r.items, id) THEN {"ok", "rejected"} ELSE {"not_found"}
Asynchronous == {"accepted", "accepted_no_location"}

\* The answers by which the remote system fails a request that it could
\* have served; a behaviour holds at most MaxFaults of them.
Faults == {"failed", "rejected", "accepted_no_location", "Failed", "Cancelled", "HttpError"}
Allowed(responses) == {r \in responses : r \in Faults => faults < MaxFaults}
Counted(response) == faults' = IF response \in Faults THEN faults + 1 ELSE faults

\* One entry of the request log; present tells whether the workspace held an
\* item of that (displayName, type) when the request was sent, unresolved
\* the logical ids of the definition that had no live id at that time.
Req(call, type, name, id, present, unresolved) ==
    [call |-> call, type |-> type, name |-> name, id |-> id, present |-> present,
     unresolved |-> unresolved]
Call(call) == Req(call, "none", 0, NoGuid, FALSE, {})

\* ------------------------------------------------------------------------
\* The artifact store: pipeline p's definition holds the identifiers
\* files[p] in document order: the logical id of a pipeline that an activity
\* runs, of a notebook or lakehouse that an activity uses, or (Mention) of
\* a pipeline that an activity of another kind holds.  notebooks_to_deploy
\* is the allow-list of the profile row ({}: not specified).
\* ------------------------------------------------------------------------
\* A logical id that the file holds outside any pipeline-running activity
Mention(name) == <<"mention", name>>
IsMention(id) == id[1] = "mention"
Mentioned(id) == IF IsMention(id) THEN LogicalId(id[2]) ELSE id

FileChoices(p) ==
    { <<>>,
      <<LogicalId((p % DeployPipelines) + 1)>>,
      <<LogicalId(NotebookName(1)), LogicalId(LakehouseName)>> }
    \cup (IF p = 1 THEN {<<Mention((p % DeployPipelines) + 1)>>} ELSE {})
ArtifactStores ==
    [files : {f \in [PipelineNames -> UNION {FileChoices(p) : p \in PipelineNames}] :
                 \A p \in PipelineNames : f[p] \in FileChoices(p)},
     notebooks_to_deploy : {{}, {NotebookName(NumNotebooks)}}]

\* An activity that runs a notebook or reads a lakehouse
OtherActivity(id) ==
    Mapping(<< <<"name", Text("Run notebook")>>,
               <<"type", Text("TridentNotebook")>>,
               <<"typeProperties",
                 Mapping(<< <<"notebookId", IdText(id)>>,
                            <<"workspaceId", IdText(ZeroGuid)>> >>)>> >>)

IsPipelineId(id) == \E p \in PipelineNames : id = LogicalId(p)

\* pipeline-content.json of a stored pipeline
DeployContent(file) ==
    Mapping(<< <<"properties",
                 Mapping(<< <<"activities",
                              Listing([i \in 1..Len(file) |->
                                         IF ~IsPipelineId(file[i]) THEN OtherActivity(Mentioned(file[i]))
                                         ELSE IF i % 2 = 1 THEN ExecuteActivity(file[i])
                                         ELSE InvokeActivity(file[i])])>> >>)>> >>)

RECURSIVE RawFile(_)
\* The same file as text: its identifiers in document order
RawFile(file) ==
    IF file = <<>> THEN <<>>
    ELSE (IF IsPipelineId(Head(file)) THEN <<Head(file)>>
          ELSE <<Mentioned(Head(file)), ZeroGuid>>)
         \o RawFile(Tail(file))

\* get_unsorted_pipeline_dict(): the stored pipelines in directory order
DeployPipelineDict ==
    [p \in PipelineNames |-> [name |-> p, content |-> DeployContent(artifacts.files[p])]]
\* repository_items["DataPipeline"] with its logical ids
DeployTable == [p \in PipelineNames |-> [name |-> p, key |-> LogicalId(p)]]

\* deployed_items_list()[type][name]["guid"], "" when not deployed; the last
\* listed item of a (type, name) wins
LiveGuid(items, type, name) ==
    IF HasItem(items, name, type)
    THEN items[CHOOSE i \in 1..Len(items) :
                  /\ items[i].displayName = name /\ items[i].type = type
                  /\ \A j \in (i+1)..Len(items) :
                        ~(items[j].displayName = name /\ items[j].type = type)].id
    ELSE NoGuid

RepositoryEntry(items, type, name) ==
    [name |-> name, type |-> type, logical_id |-> LogicalId(name),
     guid |-> LiveGuid(items, type, name)]

\* repository_items_list(): pipelines, then lakehouses, then notebooks
repository_items_list(items) ==
    [p \in PipelineNames |-> RepositoryEntry(items, "DataPipeline", p)]
    \o <<RepositoryEntry(items, "Lakehouse", LakehouseName)>>
    \o [i \in 1..NumNotebooks |-> RepositoryEntry(items, "Notebook", NotebookName(i))]

\* ------------------------------------------------------------------------
\* Exceptions and results of a run
\* ------------------------------------------------------------------------
\* An exception: the phase whose handler reports it, what went wrong, and
\* the artifact (0: none) it is about.
Error(phase, cause, name) == [phase |-> phase, cause |-> cause, name |-> name]
ArtifactPhase == "notebook/pipeline/environment"

NoneGuid == <<"none", 0>>
\* Line 1783: guids starts with the workspace's record
WorkspaceRecord ==
    [artifact_type |-> "Workspace", artifact_name |-> 0,
     artifact_location_guid |-> NoneGuid, artifact_guid |-> WorkspaceId(1)]
Record(type, name, id) ==
    [artifact_type |-> type, artifact_name |-> name,
     artifact_location_guid |-> WorkspaceId(1), artifact_guid |-> id]

\* Mutant: the record is forgotten
AppendRecord_Forgotten(list, type, name, id) == list

\* guids.append({...}): lines 622, 626, 630, 1228, 1232
AppendRecord(list, type, name, id) == Append(list, Record(type, name, id))

\* The run ends with the exception e (orchestrator re-raises, line 196)
EndWith(e) ==
    /\ outcome' = [status |-> "error", errors |-> <<e>>]
    /\ pc' = "idle"

\* Mutant: the exception is collected and the deployment goes on
Fatal_Collected(e) ==
    /\ error_messages' = Append(error_messages, e)
    /\ UNCHANGED <<pc, raised, outcome>>

\* An exception reaches the orchestrator's handler around deploy_artifacts:
\* Fresh cleans the workspace up and re-raises (lines 151-159); Refresh
\* collects the message and raises the collected messages (lines 184-192).
Fatal(e) ==
    IF frame.strategy = "Fresh"
    THEN /\ pc' = "cleanup"
         /\ raised' = e
         /\ UNCHANGED <<error_messages, outcome>>
    ELSE /\ pc' = "idle"
         /\ error_messages' = Append(error_messages, e)
         /\ outcome' = [status |-> "error", errors |-> Append(error_messages, e)]
         /\ UNCHANGED raised

\* Mutant: the cleanup also deletes the notebooks outside the allow-list
items_to_delete_NotAllowed(items) ==
    SelectSeq(items, LAMBDA it :
        /\ it.type = "Notebook"
        /\ \/ it.displayName \notin NotebookNames
           \/ /\ artifacts.notebooks_to_deploy # {}
              /\ it.displayName \notin artifacts.notebooks_to_deploy)

\* clean_deleted_item's items_to_delete: listed notebooks the store lacks
items_to_delete(items) ==
    SelectSeq(items, LAMBDA it : it.type = "Notebook" /\ it.displayName \notin NotebookNames)

\* deploy_artifacts is entered (lines 1782-1783); in Refresh the lakehouse
\* and eventhouse tables are read off the listing, without a request.
BeginDeploy ==
    /\ guids' = <<WorkspaceRecord>>
    /\ IF frame.strategy = "Fresh"
       THEN /\ pc' = "lakehouse"
            /\ frame' = [frame EXCEPT !.work = <<LakehouseName>>, !.cursor = 1,
                                      !.elapsed = 0]
       ELSE /\ pc' = "clean"
            /\ frame' = [frame EXCEPT !.work = items_to_delete(frame.items),
                                      !.cursor = 1, !.elapsed = 0]

\* ------------------------------------------------------------------------
\* orchestrator(): profile, token, workspace lookup
\* ------------------------------------------------------------------------
StartRun ==
    /\ pc = "idle"
    /\ pc' = "profile"
    /\ frame' = IdleFrame
    /\ guids' = <<>>
    /\ error_messages' = <<>>
    /\ raised' = NoError
    /\ outcome' = [status |-> "running", errors |-> <<>>]
    /\ log' = <<>>
    /\ op' = NoOp
    /\ completed' = <<>>
    /\ UNCHANGED <<fixedVars, faults, remote>>

\* Mutant: an empty selection is not noticed
Empty_Never(rows) == FALSE

\* Line 111: deployment_operation_ws_details_df.empty
Empty(rows) == rows = "none"

\* Lines 101-112: the profile rows are filtered; no row, no run
LoadProfile ==
    /\ pc = "profile"
    /\ \E rows \in {"none", "one"} :
          /\ frame' = [frame EXCEPT !.profile = rows]
          /\ IF Empty(rows)
             THEN EndWith(Error("config", "No matching deployment profile found.", 0))
             ELSE pc' = "token" /\ UNCHANGED outcome
    /\ UNCHANGED <<fixedVars, faults, remote, guids, error_messages, raised, log, op,
                   completed>>

\* Line 126: get_spn_access_token
GetToken ==
    /\ pc = "token"
    /\ log' = Append(log, Call("token"))
    /\ \E response \in Allowed({"ok", "failed"}) :
          /\ Counted(response)
          /\ IF response = "ok"
             THEN pc' = "lookup" /\ UNCHANGED outcome
             ELSE EndWith(Error("token", "Failed to get access token", 0))
    /\ UNCHANGED <<fixedVars, remote, frame, guids, error_messages, raised, op,
                   completed>>

\* Lines 131-137: the workspace is looked up by name; found: Refresh
LookupWorkspace ==
    /\ pc = "lookup"
    /\ log' = Append(log, Call("lookup_workspace"))
    /\ \E response \in Allowed({"ok", "failed"}) :
          /\ Counted(response)
          /\ IF response # "ok" THEN /\ EndWith(Error("lookup", "request failed", 0))
                               /\ UNCHANGED frame
             ELSE /\ UNCHANGED outcome
                  /\ IF remote.workspace
                     THEN pc' = "security" /\ frame' = [frame EXCEPT !.strategy = "Refresh"]
                     ELSE pc' = "create_workspace" /\ frame' = [frame EXCEPT !.strategy = "Fresh"]
    /\ UNCHANGED <<fixedVars, remote, guids, error_messages, raised, op, completed>>

\* Line 140: create_workspace; on failure workspace_id stays None and
\* nothing is cleaned up
CreateWorkspace ==
    /\ pc = "create_workspace"
    /\ log' = Append(log, Call("create_workspace"))
    /\ \E response \in Allowed({"ok", "failed"}) :
          /\ Counted(response)
          /\ IF response = "ok"
             THEN /\ remote' = [remote EXCEPT !.workspace = TRUE, !.items = <<>>]
                  /\ pc' = "security"
                  /\ UNCHANGED outcome
             ELSE /\ EndWith(Error("workspace", "create failed", 0))
                  /\ UNCHANGED remote
    /\ UNCHANGED <<fixedVars, frame, guids, error_messages, raised, op, completed>>

\* Lines 143 and 167: add_security_group_to_workspace
AddSecurityGroup ==
    /\ pc = "security"
    /\ log' = Append(log, Call("add_security_group"))
    /\ \E response \in Allowed({"ok", "failed"}) :
          /\ Counted(response)
          /\ IF response # "ok"
             THEN /\ Fatal(Error("security", "request failed", 0))
                  /\ UNCHANGED <<frame, guids>>
             ELSE /\ UNCHANGED <<error_messages, raised, outcome>>
                  /\ IF frame.strategy = "Fresh" THEN BeginDeploy
                     ELSE pc' = "list" /\ UNCHANGED <<frame, guids>>
    /\ UNCHANGED <<fixedVars, remote, op, completed>>

\* Mutant: a failed delete of the workspace replaces the error of the run
Cleanup_DeleteErrorWins ==
    /\ pc = "cleanup"
    /\ log' = Append(log, Call("delete_workspace"))
    /\ \E response \in Allowed({"ok", "failed"}) :
          /\ Counted(response)
          /\ remote' = IF response = "ok" THEN NoWorkspace ELSE remote
          /\ EndWith(IF response = "ok" THEN raised
                     ELSE Error("cleanup", "delete failed", 0))
    /\ UNCHANGED <<fixedVars, frame, guids, error_messages, raised, op, completed>>

\* Lines 155-159: Fresh cleanup, then the exception is re-raised
Cleanup ==
    /\ pc = "cleanup"
    /\ log' = Append(log, Call("delete_workspace"))
    /\ \E response \in Allowed({"ok", "failed"}) :
          /\ Counted(response)
          /\ remote' = IF response = "ok" THEN NoWorkspace ELSE remote
    /\ EndWith(raised)
    /\ UNCHANGED <<fixedVars, frame, guids, error_messages, raised, op, completed>>

\* Mutant: the collected messages are dropped
RunResult_IgnoreCollected(messages) == [status |-> "success", errors |-> <<>>]

\* Lines 190-192: if error_messages: raise Exception("; ".join(error_messages))
RunResult(messages) ==
    IF messages = <<>> THEN [status |-> "success", errors |-> <<>>]
    ELSE [status |-> "error", errors |-> messages]

\* Lines 190-192: the collected messages decide the run's result
Finish ==
    /\ pc = "finish"
    /\ pc' = "idle"
    /\ outcome' = RunResult(error_messages)
    /\ UNCHANGED <<fixedVars, faults, remote, frame, guids, error_messages, raised, log, op,
                   completed>>

\* ------------------------------------------------------------------------
\* Refresh: listing, delete_old_items, wait_for_items_deletion
\* ------------------------------------------------------------------------
\* Mutant: no environment is deleted
environments_to_delete_None(items) == <<>>

\* Lines 197-204: the listed items of type environment, in listing order
environments_to_delete(items) == SelectSeq(items, LAMBDA it : it.type = "Environment")

\* Line 170: the listing that the rest of the run works from
ListItems ==
    /\ pc = "list"
    /\ log' = Append(log, Call("list_items"))
    /\ \E response \in Allowed({"ok", "failed"}) :
          /\ Counted(response)
          /\ IF response = "ok"
             THEN /\ pc' = "delete_environments"
                  /\ frame' = [frame EXCEPT
                                  !.items = remote.items,
                                  !.work = environments_to_delete(remote.items),
                                  !.cursor = 1]
                  /\ UNCHANGED <<error_messages, raised, outcome>>
             ELSE /\ Fatal(Error("list", "request failed", 0))
                  /\ UNCHANGED frame
    /\ UNCHANGED <<fixedVars, remote, guids, op, completed>>

\* Mutant: after an exception of the delete phase nothing is deployed
DeleteFailed_NoDeploy(cause, name) ==
    /\ error_messages' = Append(error_messages, Error("delete", cause, name))
    /\ pc' = "finish"
    /\ UNCHANGED <<frame, guids>>

\* Mutant: a rejected delete is recorded and the loop goes on to its next item
DeleteFailed_Continue(cause, name) ==
    /\ error_messages' = Append(error_messages, Error("delete", cause, name))
    /\ IF frame.cursor < Len(frame.work)
       THEN /\ frame' = [frame EXCEPT !.cursor = @ + 1]
            /\ UNCHANGED <<pc, guids>>
       ELSE BeginDeploy

\* Lines 175-176: an exception of the delete phase is collected and the
\* deployment goes on
DeleteFailed(cause, name) ==
    /\ error_messages' = Append(error_messages, Error("delete", cause, name))
    /\ BeginDeploy

\* Lines 197-209: the listed Environment items are deleted
DeleteEnvironment ==
    /\ pc = "delete_environments"
    /\ frame.cursor <= Len(frame.work)
    /\ LET item == frame.work[frame.cursor]
       IN /\ log' = Append(log, Req("delete", item.type, item.displayName, item.id,
                                    HasId(remote.items, item.id), {}))
          /\ \E response \in Allowed(DeleteResponses(remote, item.id)) :
                /\ Counted(response)
                /\ IF response = "ok"
                   THEN /\ remote' = RemoteDelete(remote, item.id)
                        /\ frame' = [frame EXCEPT !.cursor = @ + 1]
                        /\ UNCHANGED <<pc, guids, error_messages>>
                   ELSE /\ DeleteFailed("delete rejected", item.displayName)
                        /\ UNCHANGED remote
    /\ UNCHANGED <<fixedVars, raised, outcome, op, completed>>

\* items_map.get(pipeline_name): the last listed item of that display name
MatchingItems(items, name) ==
    LET idx == {i \in 1..Len(items) : items[i].displayName = name}
    IN IF idx = {} THEN <<>>
       ELSE <<items[CHOOSE i \in idx : \A j \in idx : j <= i]>>

\* Mutant: every listed pipeline is deleted
PipelinesToDelete_AllListed(items, order) ==
    SelectSeq(items, LAMBDA it : it.type = "DataPipeline")

RECURSIVE PipelinesToDelete(_, _)
\* Lines 230-241: the items the second loop deletes, in its order
PipelinesToDelete(items, order) ==
    IF order = <<>> THEN <<>>
    ELSE SelectSeq(MatchingItems(items, Head(order)), LAMBDA it : it.type = "DataPipeline")
         \o PipelinesToDelete(items, Tail(order))

\* Mutant: the publish order is not reversed
publish_order_reversed_Same(order) == order

\* Line 224: publish_order[::-1]
publish_order_reversed(order) == Reverse(order)

\* Lines 220-227: what the sort's result makes delete_old_items do
SortedForDeletion(publish_order) ==
    IF publish_order.status = "error"
    THEN DeleteFailed(publish_order.error, 0)
    ELSE /\ pc' = "delete_pipelines"
         /\ frame' = [frame EXCEPT
                         !.work = PipelinesToDelete(frame.items,
                                                  publish_order_reversed(publish_order.order)),
                         !.cursor = 1]
         /\ UNCHANGED <<guids, error_messages>>

\* Lines 213-227: the stored pipelines are sorted for deletion
SortForDeletion ==
    /\ pc = "delete_environments"
    /\ frame.cursor > Len(frame.work)
    /\ SortedForDeletion(sort_datapipelines(DeployPipelineDict, "Repository", DeployTable))
    /\ UNCHANGED <<fixedVars, faults, remote, raised, outcome, log, op, completed>>

\* Lines 230-245: the listed pipelines of the store are deleted
DeletePipeline ==
    /\ pc = "delete_pipelines"
    /\ frame.cursor <= Len(frame.work)
    /\ LET item == frame.work[frame.cursor]
       IN /\ log' = Append(log, Req("delete", item.type, item.displayName, item.id,
                                    HasId(remote.items, item.id), {}))
          /\ \E response \in Allowed(DeleteResponses(remote, item.id)) :
                /\ Counted(response)
                /\ IF response = "ok"
                   THEN /\ remote' = RemoteDelete(remote, item.id)
                        /\ frame' = [frame EXCEPT !.cursor = @ + 1]
                        /\ UNCHANGED <<pc, guids, error_messages>>
                   ELSE /\ DeleteFailed("delete rejected", item.displayName)
                        /\ UNCHANGED remote
    /\ UNCHANGED <<fixedVars, raised, outcome, op, completed>>

\* Line 247: delete_old_items returns
DeleteDone ==
    /\ pc = "delete_pipelines"
    /\ frame.cursor > Len(frame.work)
    /\ pc' = "wait"
    /\ frame' = [frame EXCEPT !.elapsed = 0]
    /\ UNCHANGED <<fixedVars, faults, remote, guids, error_messages, raised, outcome, log, op,
                   completed>>

\* Mutant: the ceiling is never reached
TimedOut_Never(elapsed) == FALSE

\* Line 57: while time.time() - start_time < max_wait_time
TimedOut(elapsed) == elapsed >= max_wait_time

\* Lines 57-76: one round of wait_for_items_deletion; a failed listing
\* counts as a round
WaitForDeletion ==
    /\ pc = "wait"
    /\ ~TimedOut(frame.elapsed)
    /\ log' = Append(log, Call("list_items"))
    /\ \E response \in Allowed({"ok", "failed"}) :
          /\ Counted(response)
          /\ IF response = "ok" /\ \A i \in 1..Len(remote.items) : ~EndsWithOld(remote.items[i].displayName)
             THEN BeginDeploy
             ELSE /\ frame' = [frame EXCEPT !.elapsed = @ + check_interval]
                  /\ UNCHANGED <<pc, guids>>
    /\ UNCHANGED <<fixedVars, remote, error_messages, raised, outcome, op, completed>>

\* Lines 78-79: the ceiling is reached; the deployment goes on
WaitTimeout ==
    /\ pc = "wait"
    /\ TimedOut(frame.elapsed)
    /\ BeginDeploy
    /\ UNCHANGED <<fixedVars, faults, remote, error_messages, raised, outcome, log, op,
                   completed>>

\* ------------------------------------------------------------------------
\* deploy_artifacts: lakehouses and eventhouses (Fresh only)
\* ------------------------------------------------------------------------
\* create_lakehouse / create_eventhouse return the response body on 201 and
\* 202; the body of a 202 has no id, which the caller reports as an invalid
\* response.
CreateStore(type, phase, next_pc, next_work) ==
    /\ frame.cursor <= Len(frame.work)
    /\ LET name == frame.work[frame.cursor]
       IN /\ log' = Append(log, Req("create", type, name, NoGuid,
                                    HasItem(remote.items, name, type), {}))
          /\ \E response \in Allowed(CreateResponses(remote, name, type) \ {"accepted_no_location"}) :
                /\ Counted(response)
                /\ IF response = "created"
                   THEN /\ remote' = RemoteCreate(remote, name, type)
                        /\ completed' = Append(completed, [type |-> type, name |-> name])
                        /\ pc' = next_pc
                        /\ frame' = [frame EXCEPT !.work = next_work, !.cursor = 1]
                        /\ UNCHANGED <<error_messages, raised, outcome>>
                   ELSE /\ Fatal(Error(phase, IF response = "accepted" THEN "invalid response"
                                              ELSE "create rejected", name))
                        /\ UNCHANGED <<remote, completed, frame>>
    /\ UNCHANGED <<fixedVars, guids, op>>

\* deploy_lakehouse, lines 1392-1423
CreateLakehouse ==
    /\ pc = "lakehouse"
    /\ CreateStore("Lakehouse", "lakehouse", "eventhouse", <<EventhouseName>>)

\* deploy_eventhouse, lines 1668-1691
CreateEventhouse ==
    /\ pc = "eventhouse"
    /\ CreateStore("Eventhouse", "eventhouse", "clean", items_to_delete(frame.items))

\* ------------------------------------------------------------------------
\* deploy_artifacts: notebooks
\* ------------------------------------------------------------------------
\* clean_deleted_item, lines 1478-1490
CleanDeleted ==
    /\ pc = "clean"
    /\ frame.cursor <= Len(frame.work)
    /\ LET item == frame.work[frame.cursor]
       IN /\ log' = Append(log, Req("delete", item.type, item.displayName, item.id,
                                    HasId(remote.items, item.id), {}))
          /\ \E response \in Allowed(DeleteResponses(remote, item.id)) :
                /\ Counted(response)
                /\ IF response = "ok"
                   THEN /\ remote' = RemoteDelete(remote, item.id)
                        /\ frame' = [frame EXCEPT !.cursor = @ + 1]
                        /\ UNCHANGED <<pc, error_messages, raised, outcome>>
                   ELSE /\ Fatal(Error(ArtifactPhase, "delete rejected", item.displayName))
                        /\ UNCHANGED <<remote, frame>>
    /\ UNCHANGED <<fixedVars, guids, op, completed>>

\* Line 1514: the loop over the stored notebooks starts
CleanDone ==
    /\ pc = "clean"
    /\ frame.cursor > Len(frame.work)
    /\ pc' = "notebook"
    /\ frame' = [frame EXCEPT !.work = <<>>, !.cursor = 1]
    /\ UNCHANGED <<fixedVars, faults, remote, guids, error_messages, raised, outcome, log, op,
                   completed>>

\* Mutant: the allow-list is ignored
Skipped_Never(notebook_name) == FALSE

\* Line 1527: allowed_notebooks and notebook_name not in allowed_notebooks
Skipped(notebook_name) ==
    /\ artifacts.notebooks_to_deploy # {}
    /\ notebook_name \notin artifacts.notebooks_to_deploy

\* Lines 1527-1530
SkipNotebook ==
    /\ pc = "notebook"
    /\ frame.cursor <= NumNotebooks
    /\ Skipped(NotebookName(frame.cursor))
    /\ frame' = [frame EXCEPT !.cursor = @ + 1, !.skipped_count = @ + 1]
    /\ UNCHANGED <<fixedVars, faults, remote, pc, guids, error_messages, raised, outcome, log,
                   op, completed>>

\* Mutant: a notebook is always created
NotebookRequest_AlwaysCreate(in_existing_items) == "create"

\* Mutant: every notebook is sent as an update of an existing item
NotebookRequest_AlwaysUpdate(in_existing_items) == "update"

\* Lines 604-614: if notebook_key in existing_items
NotebookRequest(in_existing_items) == IF in_existing_items THEN "update" ELSE "create"

\* The submission of one artifact "accepted but asynchronous"
Accepted(caller, request, type, name, target, status) ==
    [caller |-> caller, request |-> request, type |-> type, name |-> name,
     target |-> target, events |-> <<>>, status |-> status, result_id |-> NoGuid,
     guids_before |-> Len(guids)]

\* The loop of the caller goes on to its next artifact; deploy_notebooks
\* counts the notebook as deployed (line 1566)
Deployed(caller) ==
    [frame EXCEPT !.cursor = @ + 1,
                  !.deployed_count = IF caller = "notebook" THEN @ + 1 ELSE @]

\* Mutant: an accepted submission is not waited for
Respond_NoWait(caller, request, type, name, target, response) ==
    CASE response = "ok" ->
           /\ guids' = AppendRecord(guids, type, name, target)
           /\ completed' = Append(completed, [type |-> type, name |-> name])
           /\ frame' = Deployed(caller)
           /\ op' = NoOp
           /\ UNCHANGED <<remote, pc, error_messages, raised, outcome>>
      [] response = "created" ->
           /\ remote' = RemoteCreate(remote, name, type)
           /\ guids' = AppendRecord(guids, type, name, FreshId)
           /\ completed' = Append(completed, [type |-> type, name |-> name])
           /\ frame' = Deployed(caller)
           /\ op' = NoOp
           /\ UNCHANGED <<pc, error_messages, raised, outcome>>
      [] response = "accepted" ->
           /\ op' = Accepted(caller, request, type, name, target, "Accepted")
           /\ frame' = Deployed(caller)
           /\ UNCHANGED <<remote, guids, completed, pc, error_messages, raised, outcome>>
      [] response = "accepted_no_location" ->
           /\ op' = Accepted(caller, request, type, name, target, "NoLocation")
           /\ Fatal(Error(ArtifactPhase, "Location header is missing", name))
           /\ UNCHANGED <<remote, guids, completed, frame>>
      [] OTHER ->
           /\ op' = NoOp
           /\ Fatal(Error(ArtifactPhase, "request rejected", name))
           /\ UNCHANGED <<remote, guids, completed, frame>>

\* What create_notebook (lines 620-633) and create_data_pipeline (lines
\* 1226-1235) do with the response to their request
Respond(caller, request, type, name, target, response) ==
    CASE response = "ok" ->
           /\ guids' = AppendRecord(guids, type, name, target)
           /\ completed' = Append(completed, [type |-> type, name |-> name])
           /\ frame' = Deployed(caller)
           /\ op' = NoOp
           /\ UNCHANGED <<remote, pc, error_messages, raised, outcome>>
      [] response = "created" ->
           /\ remote' = RemoteCreate(remote, name, type)
           /\ guids' = AppendRecord(guids, type, name, FreshId)
           /\ completed' = Append(completed, [type |-> type, name |-> name])
           /\ frame' = Deployed(caller)
           /\ op' = NoOp
           /\ UNCHANGED <<pc, error_messages, raised, outcome>>
      [] response = "accepted" ->
           /\ op' = Accepted(caller, request, type, name, target, "Accepted")
           /\ pc' = "poll"
           /\ UNCHANGED <<remote, guids, completed, frame, error_messages, raised, outcome>>
      [] response = "accepted_no_location" ->
           /\ op' = Accepted(caller, request, type, name, target, "NoLocation")
           /\ Fatal(Error(ArtifactPhase, "Location header is missing", name))
           /\ UNCHANGED <<remote, guids, completed, frame>>
      [] OTHER ->
           /\ op' = NoOp
           /\ Fatal(Error(ArtifactPhase, "request rejected", name))
           /\ UNCHANGED <<remote, guids, completed, frame>>

NotebookResponses(request, notebook_id, notebook_name) ==
    IF request = "update" THEN UpdateResponses(remote, notebook_id)
    ELSE CreateResponses(remote, notebook_name, "Notebook")

\* create_notebook, lines 604-633
SubmitNotebook ==
    /\ pc = "notebook"
    /\ frame.cursor <= NumNotebooks
    /\ LET notebook_name == NotebookName(frame.cursor)
           request == NotebookRequest(HasItem(frame.items, notebook_name, "Notebook"))
           notebook_id == LiveGuid(frame.items, "Notebook", notebook_name)
       IN /\ ~Skipped(notebook_name)
          /\ log' = Append(log, Req(request, "Notebook", notebook_name,
                                    IF request = "update" THEN notebook_id ELSE NoGuid,
                                    HasItem(remote.items, notebook_name, "Notebook"), {}))
          /\ \E response \in Allowed(NotebookResponses(request, notebook_id, notebook_name)) :
                /\ Counted(response)
                /\ Respond("notebook", request, "Notebook", notebook_name, notebook_id, response)
    /\ UNCHANGED <<fixedVars>>

\* ------------------------------------------------------------------------
\* handle_async_creation and get_operation_result
\* ------------------------------------------------------------------------
Polls == Len(SelectSeq(op.events, LAMBDA e : e = "poll"))
Fetches == Len(SelectSeq(op.events, LAMBDA e : e = "result"))
Terminal == {"Succeeded", "Failed", "Cancelled"}

\* What the poll target may answer: a finished operation keeps its state,
\* and an operation finishes within MaxPolls polls
PollAnswers ==
    IF op.status \in Terminal THEN {op.status}
    ELSE (IF Polls + 1 < MaxPolls THEN {"Running"} ELSE {})
         \cup Terminal \cup {"HttpError"}

\* Mutant: any status but a failure counts as success
PollOutcome_FetchUnlessFailed(answer) ==
    CASE answer = "HttpError" -> "raise"
      [] answer \in {"Failed", "Cancelled"} -> "raise"
      [] OTHER -> "fetch"

\* Mutant: Cancelled is not recognised as a terminal state
PollOutcome_CancelledIgnored(answer) ==
    CASE answer = "HttpError" -> "raise"
      [] answer = "Succeeded" -> "fetch"
      [] answer = "Failed" -> "raise"
      [] OTHER -> "again"

\* Lines 662-671: what one poll's answer makes the loop do
PollOutcome(answer) ==
    CASE answer = "HttpError" -> "raise"
      [] answer = "Succeeded" -> "fetch"
      [] answer \in {"Failed", "Cancelled"} -> "raise"
      [] OTHER -> "again"

\* Lines 669 and 671: the message of the exception that ends the polling;
\* a failed or cancelled operation is reported by its status
PollError(answer) ==
    IF answer = "HttpError" THEN "Unable to check operation status" ELSE answer

\* Lines 659-671: sleep, then one poll of the operation's status.  The
\* remote system creates the item when the operation succeeds.
Poll ==
    /\ pc = "poll"
    /\ Polls <= MaxPolls
    /\ \E answer \in Allowed(PollAnswers) :
          /\ Counted(answer)
          /\ LET finishing == answer = "Succeeded" /\ op.status # "Succeeded"
                 created == finishing /\ op.request = "create"
             IN /\ remote' = IF created THEN RemoteCreate(remote, op.name, op.type) ELSE remote
                /\ op' = [op EXCEPT !.events = Append(@, "poll"),
                                    !.status = answer,
                                    !.result_id = IF created THEN FreshId
                                                  ELSE IF finishing THEN op.target ELSE @]
                /\ CASE PollOutcome(answer) = "fetch" ->
                          pc' = "result" /\ UNCHANGED <<error_messages, raised, outcome>>
                     [] PollOutcome(answer) = "raise" ->
                          Fatal(Error(ArtifactPhase, PollError(answer), op.name))
                     [] OTHER -> UNCHANGED <<pc, error_messages, raised, outcome>>
    /\ UNCHANGED <<fixedVars, frame, guids, log, completed>>

\* Lines 666 and 673-690, then the caller's guids.append (lines 629-630,
\* 1231-1232)
FetchResult ==
    /\ pc = "result"
    /\ \E response \in Allowed({"ok", "failed"}) :
          /\ Counted(response)
          /\ IF response = "ok"
             THEN /\ op' = [op EXCEPT !.events = Append(@, "result"), !.status = "Done"]
                  /\ guids' = AppendRecord(guids, op.type, op.name, op.result_id)
                  /\ completed' = Append(completed, [type |-> op.type, name |-> op.name])
                  /\ pc' = op.caller
                  /\ frame' = Deployed(op.caller)
                  /\ UNCHANGED <<error_messages, raised, outcome>>
             ELSE /\ op' = [op EXCEPT !.events = Append(@, "result"), !.status = "ResultError"]
                  /\ Fatal(Error(ArtifactPhase, "Unable to retrieve operation result", op.name))
                  /\ UNCHANGED <<guids, completed, frame>>
    /\ UNCHANGED <<fixedVars, remote, log>>

\* ------------------------------------------------------------------------
\* deploy_artifacts: pipelines
\* ------------------------------------------------------------------------
\* Lines 1637-1639: an exception of the sort leaves deploy_pipelines
SortedForDeployment(publish_order) ==
    IF publish_order.status = "error"
    THEN /\ Fatal(Error(ArtifactPhase, publish_order.error, 0))
         /\ UNCHANGED frame
    ELSE /\ pc' = "pipeline"
         /\ frame' = [frame EXCEPT !.work = publish_order.order, !.cursor = 1]
         /\ UNCHANGED <<error_messages, raised, outcome>>

\* Mutant: deploy_notebooks returns before its loop is over
NotebooksDone_Early(cursor) == TRUE

\* Line 1514: the loop over the stored notebooks is exhausted
NotebooksDone(cursor) == cursor > NumNotebooks

\* deploy_pipelines, lines 1634-1637
SortPipelines ==
    /\ pc = "notebook"
    /\ NotebooksDone(frame.cursor)
    /\ SortedForDeployment(sort_datapipelines(DeployPipelineDict, "Repository", DeployTable))
    /\ op' = NoOp
    /\ UNCHANGED <<fixedVars, faults, remote, guids, log, completed>>

\* The logical ids of the store that a file holds and that have no live id
Unresolved(raw_file, items) ==
    LET entries == repository_items_list(items)
    IN {entries[i].logical_id : i \in {j \in 1..Len(entries) :
            /\ entries[j].logical_id \in Range(raw_file)
            /\ entries[j].guid = NoGuid}}

\* create_data_pipeline, lines 1144-1235: the file is rewritten, then the
\* item is posted to .../items; there is no update request
PostPipeline(item_name, raw_file, replaced_raw_file) ==
    IF replaced_raw_file.status = "error"
    THEN /\ Fatal(Error(ArtifactPhase, "is not yet deployed", item_name))
         /\ UNCHANGED <<remote, guids, log, op, completed, frame, faults>>
    ELSE /\ log' = Append(log, Req("create", "DataPipeline", item_name, NoGuid,
                                   HasItem(remote.items, item_name, "DataPipeline"),
                                   Unresolved(raw_file, remote.items)))
         /\ \E response \in Allowed(CreateResponses(remote, item_name, "DataPipeline")) :
               /\ Counted(response)
               /\ Respond("pipeline", "create", "DataPipeline", item_name, NoGuid, response)

SubmitPipeline ==
    /\ pc = "pipeline"
    /\ frame.cursor <= Len(frame.work)
    /\ PostPipeline(frame.work[frame.cursor],
                    RawFile(artifacts.files[frame.work[frame.cursor]]),
                    replace_logical_ids(RawFile(artifacts.files[frame.work[frame.cursor]]),
                                        repository_items_list(remote.items),
                                        WorkspaceId(1)))
    /\ UNCHANGED <<fixedVars>>

\* ------------------------------------------------------------------------
\* deploy_custom_environment
\* ------------------------------------------------------------------------
\* Mutant: deploy_pipelines returns before its loop is over
PipelinesDone_Early(cursor, publish_order) == TRUE

\* Line 1639: the loop over publish_order is exhausted
PipelinesDone(cursor, publish_order) == cursor > Len(publish_order)

\* create_environment, spark_utilities.py lines 33-42
CreateEnvironment ==
    /\ pc = "pipeline"
    /\ PipelinesDone(frame.cursor, frame.work)
    /\ log' = Append(log, Req("create", "Environment", env_name, NoGuid,
                              HasItem(remote.items, env_name, "Environment"), {}))
    /\ \E response \in Allowed(CreateResponses(remote, env_name, "Environment") \ Asynchronous) :
          /\ Counted(response)
          /\ IF response = "created"
             THEN /\ remote' = RemoteCreate(remote, env_name, "Environment")
                  /\ completed' = Append(completed, [type |-> "Environment", name |-> env_name])
                  /\ pc' = "publish"
                  /\ UNCHANGED <<error_messages, raised, outcome>>
             ELSE /\ Fatal(Error(ArtifactPhase, "create rejected", env_name))
                  /\ UNCHANGED <<remote, completed>>
    /\ op' = NoOp
    /\ UNCHANGED <<fixedVars, frame, guids>>

\* publish_environment, spark_utilities.py lines 63-72
PublishEnvironment ==
    /\ pc = "publish"
    /\ log' = Append(log, Call("publish"))
    /\ \E response \in Allowed({"ok", "failed"}) :
          /\ Counted(response)
          /\ IF response = "ok"
             THEN /\ pc' = "publish_poll"
                  /\ frame' = [frame EXCEPT !.elapsed = 0]
                  /\ UNCHANGED <<error_messages, raised, outcome>>
             ELSE /\ Fatal(Error(ArtifactPhase, "Error publishing environment", env_name))
                  /\ UNCHANGED frame
    /\ UNCHANGED <<fixedVars, remote, guids, op, completed>>

\* Mutant: every final state counts as a successful publish
Published_Always(publish_status) == TRUE

\* Line 215: if publish_status.lower() == "success"
Published(publish_status) == publish_status = "Success"

\* poll_environment_publish_status, lines 105-133, and lines 215-221 of
\* deploy_custom_environment: any state but "Success" is an error
PollPublish ==
    /\ pc = "publish_poll"
    /\ frame.elapsed < maximum_duration
    /\ \E current_state \in Allowed({"Running", "Success", "Failed", "HttpError"}) :
          /\ Counted(current_state)
          /\ CASE current_state = "Running" ->
                    /\ frame' = [frame EXCEPT !.elapsed =
                                    @ + IF @ < first_phase THEN first_interval
                                        ELSE polling_interval,
                                    !.publish_status = current_state]
                    /\ UNCHANGED <<pc, error_messages, raised, outcome>>
               [] current_state = "HttpError" ->
                    /\ Fatal(Error(ArtifactPhase, current_state, env_name))
                    /\ frame' = [frame EXCEPT !.elapsed = 0]
               [] OTHER ->
                    /\ frame' = [frame EXCEPT !.elapsed = 0,
                                              !.publish_status = current_state]
                    /\ IF Published(current_state)
                       THEN /\ pc' = "default"
                            /\ UNCHANGED <<error_messages, raised, outcome>>
                       ELSE Fatal(Error(ArtifactPhase, current_state, env_name))
    /\ UNCHANGED <<fixedVars, remote, guids, log, op, completed>>

\* Mutant: at the ceiling the deployment goes on to its end
PublishTimeout_Soft ==
    /\ pc = "publish_poll"
    /\ frame.elapsed >= maximum_duration
    /\ pc' = "finish"
    /\ frame' = [frame EXCEPT !.elapsed = 0]
    /\ UNCHANGED <<fixedVars, faults, remote, guids, log, op, completed, error_messages,
                   raised, outcome>>

\* Line 136: the maximum polling duration is exceeded
PublishTimeout ==
    /\ pc = "publish_poll"
    /\ frame.elapsed >= maximum_duration
    /\ Fatal(Error(ArtifactPhase, "Maximum polling duration exceeded", env_name))
    /\ frame' = [frame EXCEPT !.elapsed = 0]
    /\ UNCHANGED <<fixedVars, faults, remote, guids, log, op, completed>>

\* update_default_environment, lines 169-178; deploy_artifacts returns
SetDefaultEnvironment ==
    /\ pc = "default"
    /\ log' = Append(log, Call("set_default"))
    /\ \E response \in Allowed({"ok", "failed"}) :
          /\ Counted(response)
          /\ IF response = "ok"
             THEN /\ pc' = "finish"
                  /\ UNCHANGED <<error_messages, raised, outcome>>
             ELSE Fatal(Error(ArtifactPhase, "Error updating default environment", env_name))
    /\ UNCHANGED <<fixedVars, remote, frame, guids, op, completed>>

\* ------------------------------------------------------------------------
\* Spec: any number of runs of the orchestrator on one artifact store,
\* against a workspace that does not exist yet or one that an earlier
\* deployment and its users have left behind.
\* ------------------------------------------------------------------------
UsedWorkspace ==
    LET listed == << <<env_name, "Environment">>, <<StaleNotebook, "Notebook">>,
                     <<NotebookName(1), "Notebook">>, <<1, "DataPipeline">>,
                     <<OldSuffixed(1), "Notebook">> >>
    IN [workspace |-> TRUE,
        items |-> [i \in 1..Len(listed) |-> Item(Guid(i), listed[i][1], listed[i][2])]]

\* A workspace that holds environments, the lakehouse and a pipeline that
\* is not in the store, but no notebook and no pipeline of the store yet
OtherEnvironment == 42
\* a pipeline of the workspace that the artifact store does not hold
StalePipeline == 9
StoresOnlyWorkspace ==
    LET listed == << <<env_name, "Environment">>, <<LakehouseName, "Lakehouse">>,
                     <<OtherEnvironment, "Environment">>,
                     <<StalePipeline, "DataPipeline">> >>
    IN [workspace |-> TRUE,
        items |-> [i \in 1..Len(listed) |-> Item(Guid(i), listed[i][1], listed[i][2])]]

\* The workspaces a store is first deployed to; the third one is met by the
\* stores whose pipelines hold no identifier
InitialWorkspaces(store) ==
    {NoWorkspace, UsedWorkspace}
    \cup (IF \A p \in PipelineNames : store.files[p] = <<>>
          THEN {StoresOnlyWorkspace} ELSE {})

Init ==
    /\ artifacts \in ArtifactStores
    /\ remote \in InitialWorkspaces(artifacts)
    /\ pc = "idle"
    /\ frame = IdleFrame
    /\ guids = <<>>
    /\ error_messages = <<>>
    /\ raised = NoError
    /\ outcome = NotRun
    /\ log = <<>>
    /\ op = NoOp
    /\ completed = <<>>
    /\ faults = 0
    /\ SortIdle
    /\ SubstIdle
    /\ PacingIdle
    /\ ScanIdle
    /\ PollingIdle
    /\ UnpublishIdle

Next ==
    \/ StartRun
    \/ LoadProfile
    \/ GetToken
    \/ LookupWorkspace
    \/ CreateWorkspace
    \/ AddSecurityGroup
    \/ ListItems
    \/ DeleteEnvironment
    \/ SortForDeletion
    \/ DeletePipeline
    \/ DeleteDone
    \/ WaitForDeletion
    \/ WaitTimeout
    \/ CreateLakehouse
    \/ CreateEventhouse
    \/ CleanDeleted
    \/ CleanDone
    \/ SkipNotebook
    \/ SubmitNotebook
    \/ Poll
    \/ FetchResult
    \/ SortPipelines
    \/ SubmitPipeline
    \/ CreateEnvironment
    \/ PublishEnvironment
    \/ PollPublish
    \/ PublishTimeout
    \/ SetDefaultEnvironment
    \/ Cleanup
    \/ Finish

Spec == Init /\ [][Next]_vars


\* ------------------------------------------------------------------------
\* Properties of the deployment runs
\* ------------------------------------------------------------------------
\* The requests of the running (or last) run that create or update an item
Submissions == {i \in 1..Len(log) : log[i].call \in {"create", "update"}}
SubmissionsOf(type, name) ==
    {i \in 1..Len(log) : /\ log[i].call \in {"create", "update"}
                         /\ log[i].type = type /\ log[i].name = name}
\* The workspace held the artifact when the run listed it
Listed(type, name) == HasItem(frame.items, name, type)
DeletePhaseFailed == \E k \in 1..Len(error_messages) : error_messages[k].phase = "delete"
\* The exception that the run's handler has received last
Reported ==
    IF frame.strategy = "Fresh" THEN raised
    ELSE IF error_messages = <<>> THEN NoError
    ELSE error_messages[Len(error_messages)]

C5_CreateOrUpdate ==
    \A i \in Submissions :
        log[i].type \in {"Notebook", "DataPipeline"} =>
            /\ log[i].call = "update" <=> log[i].present
            /\ log[i].call = "update" => log[i].id # NoGuid

\* The pipeline being deployed and its definition file
CurrentPipeline == frame.work[frame.cursor]
AtPipeline == pc = "pipeline" /\ frame.cursor <= Len(frame.work)
NotYetDeployed(item_name) == Error(ArtifactPhase, "is not yet deployed", item_name)

\* C7: when the definition of the pipeline to deploy holds the logical id
\* of a stored pipeline, lakehouse or notebook that has no live id, the step
\* sends no request and changes neither the workspace nor the result list;
\* the "not yet deployed" error reaches the run's handler and the deployment
\* goes no further, so the substitution is not tried again.
C7_UnresolvedIsFatal ==
    [][(AtPipeline /\ Unresolved(RawFile(artifacts.files[CurrentPipeline]), remote.items) # {})
       => /\ log' = log
          /\ remote' = remote
          /\ guids' = guids
          /\ completed' = completed
          /\ pc' \in {"cleanup", "idle"}
          /\ Reported' = NotYetDeployed(CurrentPipeline)]_vars

\* A run has ended on a pipeline whose definition refers to an artifact
\* without a live id; no request was sent for the pipeline.
C7_Witness ==
    /\ pc = "idle"
    /\ Reported.cause = "is not yet deployed"
    /\ SubmissionsOf("DataPipeline", Reported.name) = {}
    /\ \A i \in 1..Len(guids) : guids[i].artifact_name # Reported.name


\* The events of the operation in flight, in order
LastEvent == op.events[Len(op.events)]
PollsThenFetch ==
    /\ \A k \in 1..(Len(op.events) - 1) : op.events[k] = "poll"
    /\ LastEvent = "result"

\* C8: an accepted submission whose status poll says Succeeded, after one
\* or more polls, is followed by exactly one fetch of the operation result,
\* made after the last poll (and only then); when the fetch returns, the
\* identifier of its result is the one the record appended to the result
\* list carries.
C8_FetchAfterSuccess ==
    /\ Fetches <= 1
    /\ op.status = "Succeeded" <=> pc = "result"
    /\ pc = "result" => Fetches = 0 /\ Polls >= 1 /\ LastEvent = "poll"
    /\ Fetches = 1 => Polls >= 1 /\ PollsThenFetch /\ op.status \in {"Done", "ResultError"}
    /\ op.status = "Done" =>
          /\ Fetches = 1
          /\ Len(guids) = op.guids_before + 1
          /\ guids[Len(guids)] = Record(op.type, op.name, op.result_id)
          /\ op.result_id # NoGuid
          /\ (pc # "idle" /\ pc # "cleanup") =>
                LiveGuid(remote.items, op.type, op.name) = op.result_id

\* An operation succeeded at its second poll and its result was recorded.
C8_Witness ==
    /\ op.status = "Done"
    /\ op.events = <<"poll", "poll", "result">>
    /\ guids[Len(guids)].artifact_guid = op.result_id

PollingFailed == {"Failed", "Cancelled", "HttpError", "NoLocation"}

CompletedOf(types) == SelectSeq(completed, LAMBDA c : c.type \in types)
AllTypes == {"Lakehouse", "Eventhouse", "Notebook", "DataPipeline", "Environment"}
RecordsMatch(records, done) ==
    /\ Len(records) = Len(done)
    /\ \A i \in 1..Len(done) :
          /\ records[i].artifact_type = done[i].type
          /\ records[i].artifact_name = done[i].name
          /\ records[i].artifact_location_guid = WorkspaceId(1)
          /\ records[i].artifact_guid[1] = "guid"

\* C10 (as stated): after the workspace's own record, the result list holds
\* one record per artifact created or updated so far, of whatever type, in
\* that order.
C10_OneRecordPerArtifact ==
    guids # <<>> => RecordsMatch(Tail(guids), CompletedOf(AllTypes))

\* C10 (amended): the result list starts with the workspace's record, and
\* after it holds exactly one record (type, name, workspace, live id) per
\* notebook or pipeline created or updated so far, in that order; a failed
\* request appends none, and the creation of a lakehouse, an eventhouse or
\* the environment appends none.
C10_OneRecordPerNotebookOrPipeline ==
    /\ completed # <<>> => guids # <<>>
    /\ guids # <<>> =>
          /\ guids[1] = WorkspaceRecord
          /\ RecordsMatch(Tail(guids), CompletedOf({"Notebook", "DataPipeline"}))

\* A run has created the lakehouse, the eventhouse, every notebook, every
\* pipeline and the environment.
C10_Witness ==
    /\ pc = "finish"
    /\ CompletedOf({"Lakehouse", "Eventhouse", "Environment"}) # <<>>
    /\ Len(guids) = 1 + NumNotebooks + DeployPipelines


\* ------------------------------------------------------------------------
\* Order of the phases of deploy_artifacts
\* ------------------------------------------------------------------------
\* The phase that issues a request: 0 before deploy_artifacts, then
\* lakehouses, event store, notebooks, pipelines, compute environment
PhaseOf(e) ==
    CASE e.call = "create" /\ e.type = "Lakehouse" -> 1
      [] e.call = "create" /\ e.type = "Eventhouse" -> 2
      [] e.type = "Notebook" -> 3
      [] e.call \in {"create", "update"} /\ e.type = "DataPipeline" -> 4
      [] e.call = "create" /\ e.type = "Environment" -> 5
      [] e.call \in {"publish", "set_default"} -> 5
      [] OTHER -> 0
Done(type, name) == \E k \in 1..Len(completed) : completed[k] = [type |-> type, name |-> name]
\* The stored notebooks that the run deploys
NotebooksToDeploy == {n \in NotebookNames : ~Skipped(n)}
Requested(phase) == \E i \in 1..Len(log) : PhaseOf(log[i]) = phase
OperationInFlight == pc \in {"poll", "result"}

\* C11: in a run the requests of deploy_artifacts are issued phase by phase,
\* lakehouses, event store, notebooks, pipelines, compute environment: a
\* request is never followed by one of an earlier phase, and when a phase
\* has issued a request, each earlier phase is over: lakehouse and event
\* store are created (in a run that creates the workspace), every notebook
\* to deploy is deployed before a pipeline is submitted, every pipeline
\* before the environment is created.
C11_PhaseOrder ==
    /\ \A j \in 1..Len(log) :
          PhaseOf(log[j]) > 0 =>
              \A i \in 1..(j - 1) : PhaseOf(log[i]) <= PhaseOf(log[j])
    /\ LET phases == {PhaseOf(log[i]) : i \in 1..Len(log)}
       IN /\ (frame.strategy = "Fresh" /\ phases \cap (2..5) # {}) =>
                Done("Lakehouse", LakehouseName)
          /\ (frame.strategy = "Fresh" /\ phases \cap (3..5) # {}) =>
                Done("Eventhouse", EventhouseName)
          /\ phases \cap (4..5) # {} =>
                \A n \in NotebooksToDeploy : Done("Notebook", n)
          /\ 5 \in phases => \A p \in PipelineNames : Done("DataPipeline", p)
    /\ (OperationInFlight /\ log # <<>>) =>
          /\ log[Len(log)].name = op.name
          /\ log[Len(log)].type = op.type

\* A run that created the workspace has gone through all five phases.
C11_Witness ==
    /\ frame.strategy = "Fresh"
    /\ \A ph \in 1..5 : Requested(ph)
    /\ pc = "finish"

\* C12 (as stated): every request that deploys a pipeline precedes every
\* request that deploys a notebook.
C12_PipelinesBeforeNotebooks ==
    \A i \in Submissions, j \in Submissions :
        (log[i].type = "DataPipeline" /\ log[j].type = "Notebook") => i < j

\* C12 (amended): notebooks come before pipelines: every request that
\* deploys a notebook precedes every request that deploys a pipeline, and
\* when the first pipeline is submitted every notebook to deploy has been
\* submitted and deployed; the compute environment comes last.
C12_NotebooksBeforePipelines ==
    /\ \A j \in Submissions :
          log[j].type = "DataPipeline" =>
              \A i \in Submissions : log[i].type = "Notebook" => i < j
    /\ (\E j \in Submissions : log[j].type = "DataPipeline") =>
          \A n \in NotebooksToDeploy :
              /\ SubmissionsOf("Notebook", n) # {}
              /\ Done("Notebook", n)
    /\ \A j \in Submissions :
          log[j].type = "Environment" =>
              \A i \in Submissions :
                  log[i].type \in {"Notebook", "DataPipeline"} => i < j

\* Both notebooks were submitted, then both pipelines.
C12_Witness ==
    /\ \A n \in NotebookNames : SubmissionsOf("Notebook", n) # {}
    /\ \A p \in PipelineNames : SubmissionsOf("DataPipeline", p) # {}
    /\ pc = "pipeline"


\* ------------------------------------------------------------------------
\* Failure containment
\* ------------------------------------------------------------------------
DeletePhase == {"delete_environments", "delete_pipelines", "wait"}
DeployPhase == {"lakehouse", "eventhouse", "clean", "notebook", "poll", "result",
                "pipeline", "publish", "publish_poll", "default"}
\* deploy_artifacts has just been entered
DeployEntered ==
    /\ guids = <<WorkspaceRecord>>
    /\ completed = <<>>
    /\ pc = "clean"
IsDeleteError(e) == e.phase = "delete"

\* One "delete" entry is appended to the run's error list
DeleteErrorRecorded ==
    /\ Len(error_messages') = Len(error_messages) + 1
    /\ IsDeleteError(error_messages'[Len(error_messages')])
    /\ SubSeq(error_messages', 1, Len(error_messages)) = error_messages

EveryDeleteFailureRecorded ==
    (pc \in DeletePhase /\ faults' > faults) => (DeleteErrorRecorded /\ DeployEntered')

\* C13 (as stated): a step of the delete phase that meets a failure, in
\* delete_old_items or in the wait that follows, appends an entry to the
\* run's error list, and deploy_artifacts is entered.
C13_EveryDeleteFailureRecorded == [][EveryDeleteFailureRecorded]_vars

DeleteStepContained ==
    pc \in DeletePhase =>
        /\ pc' \in DeletePhase \/ DeployEntered'
        /\ outcome' = outcome /\ raised' = raised
        /\ (pc # "wait" /\ faults' > faults) => DeleteErrorRecorded
        /\ error_messages' # error_messages => (DeleteErrorRecorded /\ DeployEntered')
        /\ pc = "wait" => error_messages' = error_messages

\* C13 (amended): in a Refresh run a failure of delete_old_items (a delete
\* that is rejected, the sort that raises) appends one "delete" entry to the
\* run's error list and deploy_artifacts is entered in the same step; a
\* failure in the wait that follows (a listing that fails, the ceiling that
\* is reached) is swallowed by the wait: nothing is recorded, and
\* deploy_artifacts is entered when the wait returns.  No step of the
\* delete phase ends the run.
C13_DeleteFailureContained == [][DeleteStepContained]_vars

\* A run whose delete_old_items failed has deployed notebooks and pipelines.
C13_Witness ==
    /\ frame.strategy = "Refresh"
    /\ DeletePhaseFailed
    /\ \E p \in PipelineNames : Done("DataPipeline", p)
    /\ \E n \in NotebookNames : Done("Notebook", n)

\* The phase whose handler in deploy_artifacts wraps an exception raised at pc
PhaseAt ==
    CASE pc = "lakehouse" -> "lakehouse"
      [] pc = "eventhouse" -> "eventhouse"
      [] OTHER -> "notebook/pipeline/environment"
\* The step has met a failure: a request that the remote system failed, or
\* an exception of the code's own (sort, substitution, invalid response)
FailureMet == faults' > faults \/ Reported' # Reported

DeployStepFatal ==
    /\ (pc \in DeployPhase /\ FailureMet) =>
          /\ pc' \in {"cleanup", "idle"}
          /\ Reported'.phase = PhaseAt
          /\ completed' = completed
          /\ guids' = guids
    /\ (pc \in {"cleanup", "idle"}) => pc' \notin DeployPhase

\* C14: a step of deploy_artifacts that meets a failure is the run's last
\* step of deployment: it leaves the deployment (to the cleanup of a Fresh
\* run or to the end of the run), the error handed to the orchestrator
\* names the phase the step belongs to, and nothing is recorded as deployed
\* by that step; no step of deploy_artifacts follows.
C14_DeployFailureFatal == [][DeployStepFatal]_vars

\* A run failed in the notebook/pipeline/environment phase after an
\* artifact was deployed.
C14_Witness ==
    /\ pc \in {"cleanup", "idle"}
    /\ Reported.phase = ArtifactPhase
    /\ completed # <<>>
    /\ log[Len(log)].type \in {"Notebook", "DataPipeline", "Environment"}


\* ------------------------------------------------------------------------
\* Outcome of a run
\* ------------------------------------------------------------------------
RunEnded == pc = "idle" /\ outcome.status # "none"
\* The errors of the outcome but the last are the collected, non-fatal ones
CollectedThenFatal(errors) ==
    /\ errors # <<>>
    /\ \A k \in 1..(Len(errors) - 1) : IsDeleteError(errors[k])
    /\ Len(errors) <= Len(error_messages) + 1
    /\ \A k \in 1..Len(error_messages) : errors[k] = error_messages[k]
    /\ raised # NoError => errors[Len(errors)] = raised

\* C15: a run ends either in success, with no error collected and none
\* raised, or in one error that holds every collected error in the order
\* of collection, followed by the fatal error if there is one; a run whose
\* delete phase failed ends in an error even if everything was deployed.
C15_OneOutcome ==
    /\ pc # "idle" => outcome.status = "running"
    /\ RunEnded =>
          /\ outcome.status \in {"success", "error"}
          /\ outcome.status = "success" <=>
                (error_messages = <<>> /\ raised = NoError /\ outcome.errors = <<>>)
          /\ outcome.status = "error" => CollectedThenFatal(outcome.errors)
          /\ DeletePhaseFailed => outcome.status = "error"

\* A run ended with the error of its delete phase followed by the fatal
\* error of its deployment.
C15_Witness ==
    /\ RunEnded
    /\ Len(outcome.errors) = 2
    /\ IsDeleteError(outcome.errors[1])
    /\ outcome.errors[2].phase = ArtifactPhase

\* C16: when no profile row matches, the run ends with the configuration
\* error and has sent no request: no token, no lookup, no listing, no
\* create, update or delete; the workspace is as it was.
C16_ConfigErrorFirst ==
    /\ frame.profile = "none" =>
          /\ pc = "idle"
          /\ log = <<>>
          /\ outcome = [status |-> "error",
                        errors |-> <<Error("config", "No matching deployment profile found.", 0)>>]
          /\ guids = <<>> /\ completed = <<>> /\ op = NoOp
    /\ (pc = "profile" \/ frame.profile = "unread") => log = <<>>
    /\ log # <<>> => frame.profile = "one"

\* A run found no matching row, after an earlier run had deployed.
C16_Witness ==
    /\ frame.profile = "none"
    /\ outcome.status = "error"
    /\ remote.workspace /\ Len(remote.items) > 0


\* ---------------------------------------------------------------------
\* Renaming before a refresh (add_old_suffix_to_items)

\* A listed notebook or pipeline that does not bear the reserved suffix
Live(item) ==
    /\ item.type \in {"Notebook", "DataPipeline"}
    /\ ~EndsWithOld(item.displayName)
\* The workspace holds the item under its name with the reserved suffix
RenamedOld(item) ==
    \E m \in 1..Len(remote.items) :
        /\ remote.items[m].id = item.id
        /\ remote.items[m].displayName = OldSuffixed(item.displayName)
\* The workspace holds an item of that name and type
NameTaken(name, type) ==
    \E m \in 1..Len(remote.items) :
        /\ remote.items[m].displayName = name
        /\ remote.items[m].type = type
ArtifactRequested ==
    \E i \in 1..Len(log) : log[i].call \in {"delete", "create", "update"}

\* C17 (as stated): in a run on an existing workspace, when the first
\* request that deletes or deploys an artifact is issued every listed
\* notebook and pipeline bears the reserved suffix, and when the
\* deployment starts the names they had are free.
C17_RenamedBeforeRefresh ==
    frame.strategy = "Refresh" =>
        /\ ArtifactRequested =>
              \A k \in 1..Len(frame.items) :
                  (Live(frame.items[k]) /\ HasId(remote.items, frame.items[k].id))
                      => RenamedOld(frame.items[k])
        /\ (pc = "clean" /\ ~DeletePhaseFailed) =>
              \A k \in 1..Len(frame.items) :
                  Live(frame.items[k]) =>
                      ~NameTaken(frame.items[k].displayName, frame.items[k].type)


\* ---------------------------------------------------------------------
\* Order of the deletions (delete_old_items)

\* Pipeline a of the store runs pipeline b of the store
ReferencesPipeline(a, b) ==
    /\ a \in PipelineNames /\ b \in PipelineNames
    /\ LogicalId(b) \in Range(artifacts.files[a])
Deletions(type) ==
    {i \in 1..Len(log) : log[i].call = "delete" /\ log[i].type = type}

\* C18: in a run, when pipeline A runs pipeline B and both are deleted,
\* the delete request of A precedes the delete request of B.
C18_DependentsDeletedFirst ==
    \A i \in Deletions("DataPipeline"), j \in Deletions("DataPipeline") :
        ReferencesPipeline(log[i].name, log[j].name) => i < j

\* A pipeline and the pipeline it runs were both deleted.
C18_Witness ==
    /\ frame.strategy = "Refresh"
    /\ \E i \in Deletions("DataPipeline"), j \in Deletions("DataPipeline") :
          /\ i < j
          /\ ReferencesPipeline(log[i].name, log[j].name)
          /\ log[i].present /\ log[j].present


\* The listed items of type Environment
EnvironmentsListed == {k \in 1..Len(frame.items) : frame.items[k].type = "Environment"}
\* The first loop of delete_old_items is over and nothing has failed
EnvironmentLoopDone ==
    /\ frame.strategy = "Refresh"
    /\ pc \in {"delete_pipelines", "wait", "finish"} \cup DeployPhase
    /\ ~DeletePhaseFailed
EnvironmentCreations ==
    {i \in 1..Len(log) : log[i].call = "create" /\ log[i].type = "Environment"}

\* C19: in a run on an existing workspace whose delete phase has not
\* failed, every listed item of type Environment has a delete request,
\* for its own id, once the first loop of delete_old_items is over; the
\* deletions of environments precede every deletion of a pipeline and the
\* creation of the compute environment.
C19_EnvironmentsDeletedFirst ==
    /\ EnvironmentLoopDone =>
          \A k \in EnvironmentsListed :
              \E i \in Deletions("Environment") : log[i].id = frame.items[k].id
    /\ \A i \in Deletions("Environment") :
          /\ \A j \in Deletions("DataPipeline") : i < j
          /\ \A j \in EnvironmentCreations : i < j
    /\ (frame.strategy = "Refresh" /\ ~DeletePhaseFailed /\ EnvironmentCreations # {}) =>
          \A k \in EnvironmentsListed :
              \E i \in Deletions("Environment") : log[i].id = frame.items[k].id

\* A run deleted the listed environment, then a pipeline, and went on to
\* create the compute environment.
C19_Witness ==
    /\ frame.strategy = "Refresh"
    /\ ~DeletePhaseFailed
    /\ EnvironmentsListed # {}
    /\ Deletions("Environment") # {}
    /\ Deletions("DataPipeline") # {}
    /\ EnvironmentCreations # {}


\* ---------------------------------------------------------------------
\* Confirmation of the deletions (wait_for_items_deletion)

ListingCalls == {i \in 1..Len(log) : log[i].call = "list_items"}
NoOldItem == \A i \in 1..Len(remote.items) : ~EndsWithOld(remote.items[i].displayName)
\* A step of wait_for_items_deletion
WaitStep ==
    /\ (pc # "wait" /\ pc' = "wait") => frame'.elapsed = 0
    /\ pc' = "wait" =>
          /\ frame'.elapsed <= max_wait_time
          /\ frame'.elapsed % check_interval = 0
    /\ pc = "wait" =>
          /\ error_messages' = error_messages
          /\ raised' = raised /\ outcome' = outcome /\ remote' = remote
          /\ \/ /\ pc' = "wait"
                /\ frame.elapsed < max_wait_time
                /\ frame'.elapsed = frame.elapsed + check_interval
                /\ log' = Append(log, Call("list_items"))
                /\ faults' > faults \/ ~NoOldItem
             \/ /\ pc' = "clean"
                /\ log' = Append(log, Call("list_items"))
                /\ frame.elapsed < max_wait_time
                /\ faults' = faults /\ NoOldItem
             \/ /\ pc' = "clean"
                /\ log' = log
                /\ frame.elapsed >= max_wait_time

PublishTimedOut == Error(ArtifactPhase, "Maximum polling duration exceeded", env_name)
AtPublishCeiling == pc = "publish_poll" /\ frame.elapsed >= maximum_duration
SetDefaultRequested == \E i \in 1..Len(log) : log[i].call = "set_default"

\* C21 (as stated): at the ceiling of the publish polling the run goes on:
\* nothing is raised, nothing is collected, the run does not end in an error.
PublishTimeoutSoftStep ==
    AtPublishCeiling =>
        /\ raised' = raised
        /\ error_messages' = error_messages
        /\ outcome'.status # "error"
        /\ pc' \notin {"cleanup", "idle"}
C21_PublishTimeoutSoft == [][PublishTimeoutSoftStep]_vars

PublishTimeoutFatalStep ==
    /\ (pc = "publish_poll" /\ pc' = "publish_poll") =>
          /\ frame.elapsed < maximum_duration
          /\ frame'.elapsed > frame.elapsed
    /\ AtPublishCeiling =>
          /\ log' = log /\ remote' = remote
          /\ IF frame.strategy = "Fresh"
             THEN pc' = "cleanup" /\ raised' = PublishTimedOut
             ELSE /\ pc' = "idle"
                  /\ error_messages' = Append(error_messages, PublishTimedOut)
                  /\ outcome' = [status |-> "error", errors |-> error_messages']
    /\ (pc = "cleanup" /\ raised = PublishTimedOut) =>
          /\ pc' = "idle"
          /\ outcome' = [status |-> "error", errors |-> <<PublishTimedOut>>]
          /\ ~SetDefaultRequested'

\* C21 (amended): the publish polling is bounded, and at its ceiling, the
\* state still Running, poll_environment_publish_status raises: the
\* deployment fails with that error without a further request, the
\* environment is not set as default, and the run ends in an error (after
\* the cleanup of a workspace the run created).
C21_PublishTimeoutFatal == [][PublishTimeoutFatalStep]_vars

\* A run ended with the error of the publish polling's ceiling.
C21_Witness ==
    /\ RunEnded
    /\ outcome.status = "error"
    /\ outcome.errors[Len(outcome.errors)] = PublishTimedOut
    /\ ~SetDefaultRequested


EnvironmentPublished ==
    \E i \in 1..Len(log), j \in 1..Len(log) :
        /\ i < j
        /\ log[i].call = "create" /\ log[i].type = "Environment"
        /\ log[i].name = env_name /\ ~log[i].present
        /\ log[j].call = "publish"
\* A step that touches the default environment
SetDefaultStep ==
    /\ pc' = "default" => frame'.publish_status = "Success"
    /\ (pc = "publish_poll" /\ frame'.publish_status \notin {"Success", frame.publish_status})
          => pc' # "default"
    /\ (log' # log /\ log' # <<>> /\ log'[Len(log')].call = "set_default") =>
          /\ pc = "default"
          /\ frame.publish_status = "Success"
          /\ EnvironmentPublished
          /\ HasItem(remote.items, env_name, "Environment")
          /\ ~SetDefaultRequested

\* C22: update_default_environment is requested only after the compute
\* environment was created and published and a status poll returned
\* Success, once per run; a poll that returns another state never leads to
\* the request.
C22_DefaultOnlyIfPublished == [][SetDefaultStep]_vars

\* The environment was created, published, polled as Success and set as
\* default, and the run succeeded.
C22_Witness ==
    /\ SetDefaultRequested
    /\ frame.publish_status = "Success"
    /\ RunEnded /\ outcome.status = "success"


\* ---------------------------------------------------------------------
\* Selective deployment of notebooks (deploy_notebooks)

AllowList == artifacts.notebooks_to_deploy
InAllowList(n) == AllowList = {} \/ n \in AllowList
\* deploy_notebooks has returned
NotebookPhaseOver == pc \in {"pipeline", "publish", "publish_poll", "default", "finish"}

\* C23: a notebook is submitted (create or update) only if no allow-list is
\* given or its name is in the list; the notebooks passed by the loop are
\* counted either as deployed or as skipped; and when deploy_notebooks has
\* returned, a notebook of the store was submitted if and only if the list
\* allows it, deployed_count + skipped_count is the number of notebooks of
\* the store, and skipped_count is the number of notebooks outside the list.
C23_AllowList ==
    /\ \A i \in Submissions :
          log[i].type = "Notebook" =>
              /\ log[i].name \in NotebookNames
              /\ InAllowList(log[i].name)
    /\ pc = "notebook" =>
          frame.deployed_count + frame.skipped_count = frame.cursor - 1
    /\ NotebookPhaseOver =>
          /\ \A n \in NotebookNames :
                InAllowList(n) <=> SubmissionsOf("Notebook", n) # {}
          /\ frame.deployed_count + frame.skipped_count = NumNotebooks
          /\ frame.skipped_count = Cardinality({n \in NotebookNames : ~InAllowList(n)})
          /\ frame.deployed_count = Len(CompletedOf({"Notebook"}))

\* With an allow-list, a run deployed one notebook, skipped another and
\* succeeded.
C23_Witness ==
    /\ AllowList # {}
    /\ frame.deployed_count > 0
    /\ frame.skipped_count > 0
    /\ RunEnded /\ outcome.status = "success"


\* ---------------------------------------------------------------------
\* Cleanup of stale notebooks (clean_deleted_item)

\* The listed notebooks, by position in the listing
ListedNotebooks == {k \in 1..Len(frame.items) : frame.items[k].type = "Notebook"}
StaleListed == {k \in ListedNotebooks : frame.items[k].displayName \notin NotebookNames}
\* clean_deleted_item has returned
CleanupOver ==
    pc \in {"notebook", "poll", "result", "pipeline", "publish", "publish_poll",
            "default", "finish"}

\* C24: the cleanup requests the deletion of listed notebooks only, each at
\* most once, and only of those whose name is not a notebook of the store;
\* when it has returned, every such notebook has its request. A listed
\* notebook whose name is in the store has no delete request and stays in
\* the workspace during the run, in the allow-list or not.
C24_CleanupExact ==
    /\ \A i \in Deletions("Notebook") :
          /\ log[i].name \notin NotebookNames
          /\ \E k \in StaleListed : frame.items[k].id = log[i].id
          /\ \A j \in Deletions("Notebook") : log[j].id = log[i].id => j = i
    /\ CleanupOver =>
          \A k \in StaleListed :
              \E i \in Deletions("Notebook") : log[i].id = frame.items[k].id
    /\ (pc # "idle" /\ frame.strategy = "Refresh") =>
          \A k \in ListedNotebooks \ StaleListed :
              /\ HasId(remote.items, frame.items[k].id)
              /\ \A i \in 1..Len(log) :
                    log[i].call = "delete" => log[i].id # frame.items[k].id

\* The cleanup deleted the stale notebooks and left a listed notebook of
\* the store that the allow-list excludes.
C24_Witness ==
    /\ pc = "finish"
    /\ Deletions("Notebook") # {}
    /\ \E k \in ListedNotebooks \ StaleListed : ~InAllowList(frame.items[k].displayName)


\* ------------------------------------------------------------------------
\* SpecPace: the pauses of a run.  Each loop that sends requests keeps a
\* counter i of its iterations; the loops of delete_old_items,
\* clean_deleted_item and deploy_notebooks sleep before an iteration when
\* i % 30 = 0, deploy_pipelines and the creation of the stores and of the
\* environment do not sleep.  A run is the sequence of these loops; the
\* sizes of the loops are its inputs.
\* ------------------------------------------------------------------------
\* "if i % 30 == 0: time.sleep(55)"
batch == 30
MaxOver == 1
LoopSizes == {0, 1, batch + MaxOver}

\* The loops of a run in the order of their calls, with the stage that
\* follows each
RefreshStages == <<"delete_environments", "delete_pipelines", "wait", "clean",
                   "notebooks", "pipelines", "environment", "done">>
FreshStages == <<"lakehouses", "eventhouses", "notebooks", "pipelines",
                 "environment", "done">>
StagesOf(strategy) == IF strategy = "Fresh" THEN FreshStages ELSE RefreshStages
NextStage(strategy, stage) ==
    LET stages == StagesOf(strategy)
        k == CHOOSE k \in 1..Len(stages) : stages[k] = stage
    IN stages[k + 1]

\* The iterations of a loop
LoopSize(p, stage) ==
    CASE stage = "delete_environments" -> p.listed
      [] stage = "delete_pipelines" -> p.pipelines
      [] stage = "clean" -> p.stale
      [] stage = "notebooks" -> p.notebooks
      [] stage = "pipelines" -> p.pipelines
      [] OTHER -> 1
\* The loops that hold "if i % 30 == 0: time.sleep(55)"
Paced(stage) == stage \in {"delete_environments", "delete_pipelines", "clean", "notebooks"}
\* The loops in which an iteration may send no request: an item that is
\* no environment, a pipeline that is not listed, a skipped notebook
Filtered(stage) == stage \in {"delete_environments", "delete_pipelines", "notebooks"}
PauseBefore(i) == i % batch = 0

PaceInit ==
    /\ \E strategy \in {"Fresh", "Refresh"},
          listed \in LoopSizes, stale \in {0, 1},
          notebooks \in {1, batch, batch + MaxOver}, pipelines \in {1, batch + MaxOver} :
          /\ strategy = "Fresh" => (listed = 0 /\ stale = 0)
          /\ pacing = [strategy |-> strategy, listed |-> listed, stale |-> stale,
                       notebooks |-> notebooks, pipelines |-> pipelines,
                       stage |-> StagesOf(strategy)[1], i |-> 0, calls |-> 0]
    /\ SortIdle
    /\ SubstIdle
    /\ DeployIdle
    /\ ScanIdle
    /\ PollingIdle
    /\ UnpublishIdle

\* One iteration of the running loop: the pause if the loop has one and
\* its counter is a multiple of 30, then the request, if the iteration
\* sends one
Iteration ==
    /\ pacing.stage \notin {"wait", "done"}
    /\ pacing.i < LoopSize(pacing, pacing.stage)
    /\ \E sends \in (IF Filtered(pacing.stage) THEN BOOLEAN ELSE {TRUE}) :
          LET since == IF Paced(pacing.stage) /\ PauseBefore(pacing.i)
                       THEN 0 ELSE pacing.calls
          IN pacing' = [pacing EXCEPT !.i = @ + 1,
                                      !.calls = since + IF sends THEN 1 ELSE 0]
    /\ UNCHANGED <<sortVars, substVars, deployVars, scan, polling, unpublish>>

\* The loop is over; the next one starts with its counter at 0
LoopDone ==
    /\ pacing.stage \notin {"wait", "done"}
    /\ pacing.i = LoopSize(pacing, pacing.stage)
    /\ pacing' = [pacing EXCEPT !.stage = NextStage(pacing.strategy, pacing.stage),
                                !.i = 0]
    /\ UNCHANGED <<sortVars, substVars, deployVars, scan, polling, unpublish>>

\* wait_for_items_deletion: returns at once, or sleeps between listings
PaceWait ==
    /\ pacing.stage = "wait"
    /\ \E slept \in BOOLEAN :
          pacing' = [pacing EXCEPT !.stage = NextStage(pacing.strategy, "wait"),
                                   !.calls = IF slept THEN 0 ELSE @]
    /\ UNCHANGED <<sortVars, substVars, deployVars, scan, polling, unpublish>>

PaceNext ==
    \/ Iteration
    \/ LoopDone
    \/ PaceWait

SpecPace == PaceInit /\ [][PaceNext]_vars

\* C25 (as stated): no more than 30 mutating calls are sent without a
\* pause between them.
C25_PauseEveryBatch == pacing.calls <= batch

\* ------------------------------------------------------------------------
\* Identifier resolution and references that resolve to nothing.
\* ------------------------------------------------------------------------
\* The ids the authored definitions hold
ReferencedIds == UNION {Range(pipeline_refs[p]) : p \in Keys}

\* Lookup tables of up to two entries of the type, two display names over
\* the ids of two pipelines; an id may be held by both entries.
LookupEntries ==
    [name : 1..2, key : {RefId(arg_lookup_type, 1), RefId(arg_lookup_type, 2)}]
LookupTables == UNION {[1..n -> LookupEntries] : n \in 0..2}

\* name is what the resolution of generic_id against table has to return
FirstMatch(generic_id, table, name) ==
    \/ /\ name = None
       /\ \A i \in 1..Len(table) : table[i].key # generic_id
    \/ \E i \in 1..Len(table) :
          /\ table[i].key = generic_id
          /\ table[i].name = name
          /\ \A j \in 1..(i-1) : table[j].key # generic_id

\* The sort's input with every reference that resolves to nothing taken out
Resolvable(ids) == SelectSeq(ids, LAMBDA g : g # UnknownId)
ResolvableDict ==
    [p \in Keys |-> [name |-> p, content |-> PipelineContent(Resolvable(pipeline_refs[p]))]]

\* C26: resolving an id gives the display name of the first entry of the
\* table whose logical id (Repository) or live id (Deployed) equals it, or
\* the not-found value None, never an error; a reference that resolves to
\* None is left out of the scanner's result, so it adds no edge, and the
\* sort returns what it returns for the same definitions without it.
C26_NotFoundNoEdge ==
    SortCalled =>
        /\ \A g \in ReferencedIds :
              /\ FirstMatch(g, SortTable(arg_lookup_type),
                            convert_id_to_name(g, SortTable(arg_lookup_type)))
              /\ \A table \in LookupTables :
                    FirstMatch(g, table, convert_id_to_name(g, table))
        /\ convert_id_to_name(UnknownId, SortTable(arg_lookup_type)) = None
        /\ \A p \in Keys :
              /\ find_referenced_datapipelines(UnsortedPipelineDict[p].content,
                                               SortTable(arg_lookup_type)).ok
              /\ find_referenced_datapipelines(UnsortedPipelineDict[p].content,
                                               SortTable(arg_lookup_type)).names
                 = find_referenced_datapipelines(ResolvableDict[p].content,
                                                 SortTable(arg_lookup_type)).names
        /\ sorted = sort_datapipelines(ResolvableDict, arg_lookup_type,
                                       SortTable(arg_lookup_type))

\* A definition with a reference to another pipeline of the dict and a
\* reference that resolves to nothing has been sorted.
C26_Witness ==
    /\ SortCalled
    /\ sorted.status = "ok"
    /\ \E p \in Keys :
          /\ UnknownId \in Range(pipeline_refs[p])
          /\ \E t \in Keys \ {p} : RefId(arg_lookup_type, t) \in Range(pipeline_refs[p])

\* ------------------------------------------------------------------------
\* The requests of a Fresh run.
\* ------------------------------------------------------------------------
\* The requests sent for an item of the workspace
ItemRequests == {i \in 1..Len(log) : log[i].type # "none"}
CreatedTypes == {log[i].type : i \in {j \in ItemRequests : log[j].call = "create"}}

\* C27: in the Fresh strategy (the workspace was created by this run) every
\* request sent for an artifact is a create: the log holds no update, rename
\* or delete of a workspace item.
C27_FreshOnlyCreates ==
    frame.strategy = "Fresh" =>
        \A i \in 1..Len(log) :
            /\ log[i].call \notin {"update", "rename", "delete"}
            /\ i \in ItemRequests => log[i].call = "create" /\ log[i].id = NoGuid

\* A Fresh run has deployed artifacts of every type and ended.
C27_Witness ==
    /\ frame.strategy = "Fresh"
    /\ pc = "idle"
    /\ outcome.status = "success"
    /\ {"Lakehouse", "Eventhouse", "Notebook", "DataPipeline", "Environment"}
          \subseteq CreatedTypes

\* ------------------------------------------------------------------------
\* Rejected requests.
\* ------------------------------------------------------------------------
\* The causes by which a non-success response to a create, update or delete
\* is raised (lines 208-209, 244-245, 636, 1489-1490)
RejectionCauses == {"delete rejected", "request rejected", "create rejected"}
\* The exceptions that the run's handlers have received so far
RunErrors ==
    Range(error_messages) \cup (IF raised = NoError THEN {} ELSE {raised})
Rejections == {e \in RunErrors : e.cause \in RejectionCauses}
\* The requests of the kind that e rejects, sent for the item that e names
RequestsFor(e) ==
    {i \in ItemRequests :
        /\ log[i].name = e.name
        /\ (log[i].call = "delete") = (e.cause = "delete rejected")}
\* The requests of the operation that raised e
SameOperation(e, j) ==
    IF IsDeleteError(e)
    THEN log[j].call = "delete" /\ log[j].type \in {"Environment", "DataPipeline"}
    ELSE j \in ItemRequests

\* C28: a rejected create, update or delete is raised by the operation that
\* sent it and is not retried: the log holds exactly one request of that
\* kind for the item that the error names, the error names the rejection
\* and the item, and the operation sends no request after the rejected one
\* (delete_old_items deletes no further item, deploy_artifacts deploys none).
C28_RejectedOnce ==
    \A e \in Rejections :
        /\ Cardinality(RequestsFor(e)) = 1
        /\ \A i \in RequestsFor(e) :
              \A j \in (i+1)..Len(log) : ~SameOperation(e, j)

\* delete_old_items had a delete rejected while a listed pipeline or
\* environment was still to be deleted, and the run has ended.
C28_Witness ==
    /\ RunEnded
    /\ \E e \in Rejections : IsDeleteError(e)
    /\ \E k \in 1..Len(frame.items) :
          /\ frame.items[k].type \in {"Environment", "DataPipeline"}
          /\ frame.items[k].displayName \in PipelineNames \cup {env_name}
          /\ \A i \in ItemRequests :
                log[i].call = "delete" => log[i].id # frame.items[k].id

\* ------------------------------------------------------------------------
\* The reserved placeholder.
\* ------------------------------------------------------------------------
Placeholders(raw_file) == {i \in 1..Len(raw_file) : raw_file[i] = ZeroGuid}
HoldsLogicalId(raw_file) == \E i \in 1..Len(raw_file) : EntriesOf(raw_file[i]) # {}

\* C29: when the substitution returns, every occurrence of the reserved
\* all-zero placeholder is replaced with the workspace's live id and none is
\* left, and a definition that holds no logical id of the repository is
\* always rewritten that way.
C29_PlaceholderReplaced ==
    SubstCalled =>
        /\ ~HoldsLogicalId(arg_raw_file) => replaced.status = "ok"
        /\ replaced.status = "ok" =>
             /\ Placeholders(replaced.raw_file) = {}
             /\ \A i \in Placeholders(arg_raw_file) : replaced.raw_file[i] = SubstWorkspace

\* A definition with two placeholders and no logical id has been rewritten.
C29_Witness ==
    /\ SubstCalled
    /\ replaced.status = "ok"
    /\ ~HoldsLogicalId(arg_raw_file)
    /\ Cardinality(Placeholders(arg_raw_file)) >= 2

\* ------------------------------------------------------------------------
\* SpecScan: find_referenced_datapipelines called on bounded definitions.
\* scan.activities is the outline of the definition's activities in
\* document order: an activity of depth d + 1 is nested in the nearest
\* activity of depth d before it.  An activity is of the legacy shape
\* ("execute"), the current shape ("invoke") or a container that runs no
\* pipeline ("foreach"); field tells whether it holds the nested field that
\* its shape keeps the reference in.  scan.parameters are the names of the
\* pipeline's parameters.
\* ------------------------------------------------------------------------
MaxActivities == 3
MaxDepth == 3
MaxParameters == 1
ScanTargets == {1, 2, None}
ParameterNames == {"env", "type"}
Recognized(a) == a.shape \in {"execute", "invoke"}

\* The activities nested directly in the i-th one
ChildIndices(acts, i) ==
    {j \in (i+1)..Len(acts) :
        /\ acts[j].depth = acts[i].depth + 1
        /\ \A k \in (i+1)..(j-1) : acts[k].depth > acts[i].depth}
TopIndices(acts) == {j \in 1..Len(acts) : acts[j].depth = 1}

RECURSIVE ActivityNode(_, _, _)
RECURSIVE NodeList(_, _, _, _)
\* The JSON of the activities idx, from the k-th of the outline on
NodeList(acts, lt, idx, k) ==
    IF k > Len(acts) THEN <<>>
    ELSE (IF k \in idx THEN <<ActivityNode(acts, lt, k)>> ELSE <<>>)
         \o NodeList(acts, lt, idx, k + 1)

\* The JSON of the i-th activity, as the pipeline editor writes it
ActivityNode(acts, lt, i) ==
    LET a == acts[i]
        id == RefId(lt, a.target)
        nested == IF ChildIndices(acts, i) = {} THEN <<>>
                  ELSE << <<"activities",
                            Listing(NodeList(acts, lt, ChildIndices(acts, i), i + 1))>> >>
    IN CASE a.shape = "execute" ->
              Mapping(<< <<"name", Text("Run child")>>,
                         <<"type", Text("ExecutePipeline")>>,
                         <<"typeProperties",
                           Mapping((IF a.field
                                    THEN << <<"pipeline",
                                              Mapping(<< <<"referenceName", IdText(id)>>,
                                                         <<"type", Text("PipelineReference")>> >>)>> >>
                                    ELSE <<>>)
                                   \o << <<"waitOnCompletion", Text("true")>> >>
                                   \o nested)>> >>)
         [] a.shape = "invoke" ->
              Mapping(<< <<"name", Text("Invoke child")>>,
                         <<"Type", Text("InvokePipeline")>>,
                         <<"typeProperties",
                           Mapping(<< <<"operationType", Text("InvokeFabricPipeline")>> >>
                                   \o (IF a.field THEN << <<"pipelineId", IdText(id)>> >>
                                       ELSE <<>>)
                                   \o nested)>> >>)
         [] OTHER ->
              Mapping(<< <<"name", Text("For each")>>,
                         <<"type", Text("ForEach")>>,
                         <<"typeProperties",
                           Mapping(<< <<"items", Text("@items")>> >> \o nested)>> >>)

\* "parameters": {name: {"type": "string"}}
ParameterNode(name) == <<name, Mapping(<< <<"type", Text("string")>> >>)>>

\* pipeline-content.json of the outline
ScanContent ==
    Mapping(<< <<"properties",
                 Mapping(<< <<"activities",
                              Listing(NodeList(scan.activities, scan.lookup_type,
                                               TopIndices(scan.activities), 1))>>,
                            <<"parameters",
                              Mapping([k \in 1..Len(scan.parameters) |->
                                          ParameterNode(scan.parameters[k])])>> >>)>> >>)

ScanInit ==
    /\ \E lookup_type \in {"Repository", "Deployed"} :
          scan = [lookup_type |-> lookup_type, activities |-> <<>>, parameters |-> <<>>,
                  result |-> NotScanned]
    /\ SortIdle
    /\ SubstIdle
    /\ DeployIdle
    /\ PacingIdle
    /\ PollingIdle
    /\ UnpublishIdle

\* An author adds an activity to the definition, at the top level or
\* nested in an activity before it; at most one activity of a definition
\* lacks the field of its shape, and a container holds no reference.
AddActivity(shape, target, depth, field) ==
    /\ scan.result.status = "none"
    /\ Len(scan.activities) < MaxActivities
    /\ depth <= (IF scan.activities = <<>> THEN 1
                 ELSE scan.activities[Len(scan.activities)].depth + 1)
    /\ shape = "foreach" => target = None /\ field
    /\ ~field => \A k \in 1..Len(scan.activities) : scan.activities[k].field
    /\ scan' = [scan EXCEPT !.activities =
                   Append(@, [shape |-> shape, target |-> target, depth |-> depth,
                              field |-> field])]
    /\ UNCHANGED <<sortVars, substVars, deployVars, pacing, polling, unpublish>>

\* An author declares a parameter of the pipeline
AddParameter(name) ==
    /\ scan.result.status = "none"
    /\ Len(scan.parameters) < MaxParameters
    /\ scan' = [scan EXCEPT !.parameters = Append(@, name)]
    /\ UNCHANGED <<sortVars, substVars, deployVars, pacing, polling, unpublish>>

\* The call find_referenced_datapipelines(item_type, item_content_dict, ...)
ScanCall ==
    /\ scan.result.status = "none"
    /\ LET found == find_referenced_datapipelines(ScanContent, SortTable(scan.lookup_type))
       IN scan' = [scan EXCEPT !.result =
                      [status |-> IF found.ok THEN "ok" ELSE "error", names |-> found.names]]
    /\ UNCHANGED <<sortVars, substVars, deployVars, pacing, polling, unpublish>>

ScanNext ==
    \/ \E shape \in {"execute", "invoke", "foreach"}, target \in ScanTargets,
          depth \in 1..MaxDepth, field \in BOOLEAN :
          AddActivity(shape, target, depth, field)
    \/ \E name \in ParameterNames : AddParameter(name)
    \/ ScanCall

SpecScan == ScanInit /\ [][ScanNext]_vars

Scanned == scan.result.status # "none"
\* A recognized activity lacks the field that its reference is read from
ReadFails == \E k \in 1..Len(scan.activities) :
                Recognized(scan.activities[k]) /\ ~scan.activities[k].field
RECURSIVE ExpectedNames(_)
\* The targets of the recognized activities that resolve, in document order
ExpectedNames(acts) ==
    IF acts = <<>> THEN <<>>
    ELSE (IF Recognized(Head(acts)) /\ Head(acts).target # None
          THEN <<Head(acts).target>> ELSE <<>>)
         \o ExpectedNames(Tail(acts))

\* C30 (as stated): for any definition the scan returns, in document order,
\* the resolved name of every activity of the two recognized shapes at any
\* depth, activities nested in a recognized activity included, and it fails
\* when a reference cannot be read.
C30_ScanListsEveryActivity ==
    Scanned =>
        IF ReadFails THEN scan.result.status = "error"
        ELSE /\ scan.result.status = "ok"
             /\ scan.result.names = ExpectedNames(scan.activities)

\* The same for the definitions in which no parameter is named "type"
ScanOfPlainParameters ==
    (Scanned /\ "type" \notin Range(scan.parameters)) => C30_ScanListsEveryActivity
\* A recognized activity nested in a recognized activity nested in a
\* container has been listed.
ScanOfNestedSeen ==
    /\ Scanned
    /\ scan.result.status = "ok"
    /\ Len(scan.result.names) = 2
    /\ Len(scan.activities) = 3
    /\ scan.activities[1].shape = "foreach"
    /\ scan.activities[2].depth = 2 /\ scan.activities[2].shape = "execute"
    /\ scan.activities[3].depth = 3 /\ scan.activities[3].shape = "invoke"

\* ------------------------------------------------------------------------
\* The order in which the sort emits the nodes.
\* ------------------------------------------------------------------------
\* sorted_items before line 1322: the deletion mode returns it inverted
Emitted == IF IsDeployed(arg_lookup_type) THEN Reverse(sorted.order) ELSE sorted.order
\* The position of the last emitted node that v references (0: none), which
\* is when v's in-degree reaches zero
ReleasedAt(v) ==
    IF TargetsOf(v) = {} THEN 0
    ELSE CHOOSE n \in 1..Len(Emitted) :
            /\ Emitted[n] \in TargetsOf(v)
            /\ \A t \in TargetsOf(v) : IndexOf(Emitted, t) <= n

\* C31: the sort is a function of its inputs (a second run on the same dict
\* with the same resolver returns the same list) and its queue is FIFO: a
\* node whose in-degree reaches zero earlier is emitted earlier, and nodes
\* that reach zero together, the initially-zero ones included, are emitted
\* in input order.
C31_DeterministicFifo ==
    (SortCalled /\ sorted.status = "ok" /\ ClosedGraph) =>
        /\ sorted = sort_datapipelines(UnsortedPipelineDict, arg_lookup_type,
                                       SortTable(arg_lookup_type))
        /\ \A a \in Keys, b \in Keys :
              a # b =>
                 (Before(Emitted, a, b) <=>
                     \/ ReleasedAt(a) < ReleasedAt(b)
                     \/ ReleasedAt(a) = ReleasedAt(b) /\ a < b)

\* Two pipelines were released by the same third one, and the sort has
\* emitted all three.
C31_Witness ==
    /\ SortCalled /\ sorted.status = "ok" /\ ClosedGraph
    /\ Len(sorted.order) = 3
    /\ \E a \in Keys, b \in Keys :
          a # b /\ ReleasedAt(a) = ReleasedAt(b) /\ ReleasedAt(a) > 0

\* ------------------------------------------------------------------------
\* Creation order and substitution.
\* ------------------------------------------------------------------------
\* The stored pipelines that an activity of p's definition runs
PipelinesRun(p) == {t \in PipelineNames : LogicalId(t) \in Range(artifacts.files[p])}

\* C32: when deploy_pipelines comes to a pipeline, every create before it
\* having succeeded, each pipeline that its definition runs has a live id in
\* the workspace's item list, so the substitution of these references
\* raises no "not yet deployed" error.
C32_ReferencedAlreadyLive ==
    AtPipeline =>
        /\ \A t \in PipelinesRun(CurrentPipeline) :
              LiveGuid(remote.items, "DataPipeline", t) # NoGuid
        /\ Unresolved(RawFile(artifacts.files[CurrentPipeline]), remote.items)
              \cap {LogicalId(t) : t \in PipelinesRun(CurrentPipeline)} = {}

\* deploy_pipelines has created a pipeline in this run and has come to a
\* pipeline that runs it.
C32_Witness ==
    /\ AtPipeline
    /\ frame.cursor > 1
    /\ \E t \in PipelinesRun(CurrentPipeline) :
          /\ t # CurrentPipeline
          /\ \E k \in 1..Len(completed) :
                completed[k] = [type |-> "DataPipeline", name |-> t]

\* ------------------------------------------------------------------------
\* SpecPoll: handle_async_creation(response, headers) on a 202 response.
\* polling.location tells whether the response holds a Location header,
\* polling.header is its Retry-After header (None: absent), polling.operation
\* the state of the remote operation.  polling.at is the caller's position:
\* "submitted" (line 652), "loop" (line 659), "slept" (after line 660),
\* "fetch" (line 667), "returned", "raised".  polling.slept is the time slept
\* since the last status query, polling.queries the number of queries sent,
\* counted up to MaxQueries.
\* ------------------------------------------------------------------------
MaxQueries == 3
\* int(response.headers.get("Retry-After", 30))
default_retry_after == 30
RetryAfterHeaders == {None, 5, 60}

\* Mutant: the wait hint of the response is not read
RetryAfter_Default(header) == default_retry_after

\* Line 653
RetryAfter(header) == IF header = None THEN default_retry_after ELSE header

\* Mutant: the loop gives up after MaxQueries queries
LoopEnds_Bounded(answer, queries) ==
    PollOutcome(answer) # "again" \/ queries + 1 >= MaxQueries

\* Lines 659-671: while True is left only by a return or a raise
LoopEnds(answer, queries) == PollOutcome(answer) # "again"

PollInit ==
    /\ \E location \in BOOLEAN, header \in RetryAfterHeaders :
          polling = [location |-> location, header |-> header, retry_after |-> 0,
                     at |-> "submitted", slept |-> 0, operation_status |-> "none",
                     operation |-> "NotStarted", queries |-> 0]
    /\ SortIdle
    /\ SubstIdle
    /\ DeployIdle
    /\ PacingIdle
    /\ ScanIdle
    /\ UnpublishIdle

\* Lines 652-657: the headers are read, once
ReadHeaders ==
    /\ polling.at = "submitted"
    /\ polling' = [polling EXCEPT !.retry_after = RetryAfter(polling.header),
                                  !.at = IF polling.location THEN "loop" ELSE "raised"]
    /\ UNCHANGED <<sortVars, substVars, deployVars, pacing, scan, unpublish>>

\* Line 660: time.sleep(retry_after)
Sleep ==
    /\ polling.at = "loop"
    /\ polling' = [polling EXCEPT !.at = "slept", !.slept = @ + polling.retry_after]
    /\ UNCHANGED <<sortVars, substVars, deployVars, pacing, scan, unpublish>>

\* Lines 661-671: the status is queried; the answer is the operation's
\* state or an error response
Query ==
    /\ polling.at = "slept"
    /\ \E answer \in {polling.operation, "HttpError"} :
          polling' = [polling EXCEPT
                         !.operation_status = answer,
                         !.slept = 0,
                         !.queries = IF @ < MaxQueries THEN @ + 1 ELSE @,
                         !.at = IF ~LoopEnds(answer, polling.queries) THEN "loop"
                                ELSE IF PollOutcome(answer) = "fetch" THEN "fetch"
                                ELSE "raised"]
    /\ UNCHANGED <<sortVars, substVars, deployVars, pacing, scan, unpublish>>

\* Lines 673-690: get_operation_result
Fetch ==
    /\ polling.at = "fetch"
    /\ \E response \in {"ok", "failed"} :
          polling' = [polling EXCEPT !.at = IF response = "ok" THEN "returned" ELSE "raised"]
    /\ UNCHANGED <<sortVars, substVars, deployVars, pacing, scan, unpublish>>

\* The remote operation starts to run, or finishes
RemoteAdvance ==
    /\ polling.at \in {"submitted", "loop", "slept"}
    /\ \/ /\ polling.operation = "NotStarted"
          /\ polling' = [polling EXCEPT !.operation = "Running"]
       \/ /\ polling.operation = "Running"
          /\ \E state \in Terminal : polling' = [polling EXCEPT !.operation = state]
    /\ UNCHANGED <<sortVars, substVars, deployVars, pacing, scan, unpublish>>

PollNext ==
    \/ ReadHeaders
    \/ Sleep
    \/ Query
    \/ Fetch
    \/ RemoteAdvance

SpecPoll == PollInit /\ [][PollNext]_vars

\* The wait hint of the submission response
WaitHint == IF polling.header = None THEN 30 ELSE polling.header
InLoop == polling.at \in {"loop", "slept"}
\* The step sends a status query
QueryStep ==
    \/ polling'.operation_status # polling.operation_status
    \/ polling'.queries # polling.queries
    \/ polling.at = "slept" /\ polling'.at # "slept"
\* The step is taken by the remote system
RemoteStep == polling'.operation # polling.operation

PollPacedStep ==
    /\ QueryStep => polling.at = "slept" /\ polling.slept = WaitHint
    /\ (polling.at = "submitted" /\ polling'.at = "loop") => polling'.retry_after = WaitHint
    /\ InLoop => polling'.retry_after = polling.retry_after
    /\ (polling.at = "loop" /\ ~RemoteStep) =>
          polling'.at = "slept" /\ polling'.slept = WaitHint
    /\ (QueryStep /\ polling'.operation_status \notin Terminal \cup {"HttpError"}) =>
          polling'.at = "loop" /\ polling'.slept = 0

\* C33: every status query, the first included, is sent after a sleep of
\* the wait hint; the hint is read once from the submission response (30
\* when the response has none) and does not change; after a non-terminal
\* answer the loop sleeps and queries again, and does nothing else.
C33_SleepBeforeQuery == [][PollPacedStep]_vars

\* A response without a wait hint: the loop has had two non-terminal
\* answers and has slept 30 before its third query.
C33_Witness ==
    /\ polling.at = "slept"
    /\ polling.header = None
    /\ polling.slept = 30
    /\ polling.queries >= 2
    /\ polling.operation_status \notin Terminal \cup {"HttpError", "none"}

\* ------------------------------------------------------------------------
\* SpecPollFair: the caller goes on running (a sleep returns, a query is
\* answered), and the remote operation goes on to a terminal state.
\* ------------------------------------------------------------------------
SpecPollFair ==
    /\ SpecPoll
    /\ WF_vars(ReadHeaders)
    /\ WF_vars(Sleep)
    /\ WF_vars(Query)
    /\ WF_vars(Fetch)
    /\ WF_vars(RemoteAdvance)

\* The loop is left only by a query that is answered with a terminal status
\* or an error response, whatever the number of queries before it
LoopLeftStep ==
    /\ (InLoop /\ polling'.at \notin {"loop", "slept"}) =>
          /\ QueryStep
          /\ polling'.operation_status \in Terminal \cup {"HttpError"}
    /\ (QueryStep /\ polling'.operation_status \in Terminal \cup {"HttpError"}) =>
          polling'.at \notin {"loop", "slept"}

\* C34: the polling loop has no bound on its iterations: it ends exactly
\* when a query is answered with a terminal status or an error response, so
\* it goes on for as long as the remote system reports a non-terminal
\* status; if the remote operation eventually reaches Succeeded, Failed or
\* Cancelled, the polling eventually ends.
C34_EndsOnlyOnTerminal ==
    /\ [][LoopLeftStep]_vars
    /\ (InLoop ~> ~InLoop)

\* After MaxQueries queries answered "Running" the loop is still running.
C34_Witness ==
    /\ polling.at = "loop"
    /\ polling.queries = MaxQueries
    /\ polling.operation_status = "Running"
    /\ polling.operation = "Running"

\* ------------------------------------------------------------------------
\* One thread of control.
\* ------------------------------------------------------------------------
\* The pipelines for which a create request has been sent, in log order
PipelineRequests ==
    LET sent == SelectSeq(log, LAMBDA r : r.type = "DataPipeline" /\ r.call = "create")
    IN [k \in 1..Len(sent) |-> sent[k].name]
IsPrefix(s, t) == Len(s) <= Len(t) /\ s = SubSeq(t, 1, Len(s))

\* C35: the pipelines' create requests are sent in exactly the order that
\* the creation sort returns; every pipeline submitted before the latest
\* one has completed (polling and result fetch included), and while an
\* accepted operation is polled no other request is sent: the operation in
\* flight is the one of the request sent last.
C35_OneAtATime ==
    /\ PipelineRequests # <<>> =>
          IsPrefix(PipelineRequests,
                   sort_datapipelines(DeployPipelineDict, "Repository", DeployTable).order)
    /\ \A k \in 1..(Len(PipelineRequests) - 1) :
          \E c \in 1..Len(completed) :
              completed[c] = [type |-> "DataPipeline", name |-> PipelineRequests[k]]
    /\ pc \in {"poll", "result"} =>
          /\ log # <<>>
          /\ log[Len(log)].name = op.name /\ log[Len(log)].type = op.type
          /\ Cardinality({c \in 1..Len(completed) :
                            completed[c] = [type |-> op.type, name |-> op.name]}) = 0

\* The second pipeline of the creation order was submitted after the first
\* one had completed, and its accepted operation is being polled.
C35_Witness ==
    /\ Len(PipelineRequests) = 2
    /\ PipelineRequests[1] = 2
    /\ pc = "poll"
    /\ op.name = PipelineRequests[2]
    /\ \E k \in 1..Len(guids) :
          guids[k].artifact_type = "DataPipeline" /\ guids[k].artifact_name = 2

NumDeployed == 4
MaxDeployedRefs == 3
DeployedPipelines == 1..NumDeployed

\* The dict orders: every arrangement of every non-empty set of candidates.
Orderings(S) == {s \in [1..Cardinality(S) -> S] : Range(s) = S}

\* The lookup table of deployed_items_list: each deployed pipeline under
\* its live id.
DeployedTable ==
    [p \in DeployedPipelines |-> [name |-> p, key |-> DeployedGuid(p)]]

\* unsorted_pipeline_dict: the candidates' definitions, in dict order.
UnpublishDict ==
    [i \in 1..Len(unpublish.candidates) |->
        [name |-> unpublish.candidates[i],
         content |-> PipelineContent(unpublish.refs[unpublish.candidates[i]])]]

UnpublishInit ==
    /\ \E S \in SUBSET DeployedPipelines :
          /\ S # {}
          /\ \E c \in Orderings(S) :
                unpublish = [refs |-> [p \in DeployedPipelines |-> <<>>],
                             candidates |-> c,
                             sorted |-> NotSorted]
    /\ SortIdle
    /\ SubstIdle
    /\ DeployIdle
    /\ PacingIdle
    /\ ScanIdle
    /\ PollingIdle

\* A deployed pipeline's definition holds one more activity that runs the
\* deployed pipeline t.
AddDeployedReference(p, t) ==
    /\ unpublish.sorted.status = "none"
    /\ SumLen(unpublish.refs, 1) < MaxDeployedRefs
    /\ unpublish' = [unpublish EXCEPT !.refs[p] = Append(@, DeployedGuid(t))]
    /\ UNCHANGED <<sortVars, substVars, deployVars, pacing, scan, polling>>

\* The call sort_datapipelines(unsorted_pipeline_dict, "Deployed", ...)
Unpublish ==
    /\ unpublish.sorted.status = "none"
    /\ unpublish' = [unpublish EXCEPT !.sorted =
                        sort_datapipelines(UnpublishDict, "Deployed", DeployedTable)]
    /\ UNCHANGED <<sortVars, substVars, deployVars, pacing, scan, polling>>

UnpublishNext ==
    \/ \E p \in DeployedPipelines, t \in DeployedPipelines : AddDeployedReference(p, t)
    \/ Unpublish

SpecUnpublish == UnpublishInit /\ [][UnpublishNext]_vars

\* ---- vocabulary of the deletion-mode claims ----
UnpublishCalled == unpublish.sorted.status # "none"
Candidates == Range(unpublish.candidates)
Externals == DeployedPipelines \ Candidates

\* The pipelines that the deployed definition of p runs.
RunsDeployed(p) ==
    {t \in DeployedPipelines : DeployedGuid(t) \in Range(unpublish.refs[p])}

\* <<t, p>>: p runs t, over every deployed pipeline.
DeployedEdges ==
    {e \in DeployedPipelines \X DeployedPipelines : e[1] \in RunsDeployed(e[2])}

\* The edges the sort can see: those of the candidates' definitions.
CandidateEdges == {e \in DeployedEdges : e[2] \in Candidates}

\* Everything S runs, directly or through a chain of deployed pipelines.
RECURSIVE RunsClosure(_)
RunsClosure(S) ==
    IF (UNION {RunsDeployed(p) : p \in S}) \subseteq S THEN S
    ELSE RunsClosure(S \cup UNION {RunsDeployed(p) : p \in S})

DependsOn(a, b) == b \in RunsClosure(RunsDeployed(a))

\* The same through candidates only.
RECURSIVE RunsInside(_)
RunsInside(S) ==
    IF (UNION {RunsDeployed(p) \cap Candidates : p \in S \cap Candidates}) \subseteq S THEN S
    ELSE RunsInside(S \cup UNION {RunsDeployed(p) \cap Candidates : p \in S \cap Candidates})

DependsInside(a, b) == b \in RunsInside(RunsDeployed(a) \cap Candidates)

EachCandidateOnce(order) ==
    Range(order) = Candidates /\ Len(order) = Cardinality(Candidates)

UnpublishRespectsInside ==
    (UnpublishCalled /\ ~HasCycle(DeployedPipelines, CandidateEdges)) =>
        /\ unpublish.sorted.status = "ok"
        /\ EachCandidateOnce(unpublish.sorted.order)
        /\ \A a, b \in Candidates :
              DependsInside(a, b) => Before(unpublish.sorted.order, a, b)

\* A sort was asked for candidates that run a pipeline outside the dict.
UnpublishWithExternal ==
    /\ unpublish.sorted.status = "ok"
    /\ \E a \in Candidates : RunsDeployed(a) \cap Externals # {}
    /\ \E x \in Externals : RunsDeployed(x) \cap Candidates # {}

\* ------------------------------------------------------------------------
\* Cleanup of a workspace that the run created (deployment_main.py lines
\* 137-159) and its absence in Refresh (lines 164-185).
\* ------------------------------------------------------------------------
WorkspaceDeletes == {i \in 1..Len(log) : log[i].call = "delete_workspace"}

\* create_workspace has returned the id of the new workspace
WorkspaceCreated ==
    \E i \in 1..Len(log) :
        /\ log[i].call = "create_workspace"
        /\ i < Len(log) \/ pc = "security"

\* C38: a Fresh run that fails after it created the workspace sends one
\* delete of the workspace as its last request and ends with the error of
\* the failing step alone, whether the delete succeeds or not; a run whose
\* create_workspace failed, and a run that succeeds, send no delete of the
\* workspace; a Refresh run never sends one and the workspace stays.
C38_FreshCleanup ==
    /\ frame.strategy = "Refresh" =>
          WorkspaceDeletes = {} /\ remote.workspace
    /\ frame.strategy = "Fresh" =>
          /\ Cardinality(WorkspaceDeletes) <= 1
          /\ \A i \in WorkspaceDeletes :
                i = Len(log) /\ WorkspaceCreated /\ RunEnded /\ outcome.status = "error"
          /\ pc = "cleanup" => WorkspaceCreated /\ raised # NoError
          /\ (RunEnded /\ outcome.status = "error" /\ WorkspaceCreated) =>
                /\ WorkspaceDeletes # {}
                /\ raised # NoError
                /\ outcome.errors = <<raised>>
          /\ (RunEnded /\ ~WorkspaceCreated) =>
                /\ WorkspaceDeletes = {}
                /\ log[Len(log)].call = "create_workspace"
                /\ ~remote.workspace
          /\ (RunEnded /\ outcome.status = "success") => WorkspaceDeletes = {}

\* A deploy phase of a Fresh run failed, the delete of the workspace failed
\* too, and the run ended with the deploy phase's error.
C38_Witness ==
    /\ frame.strategy = "Fresh"
    /\ RunEnded
    /\ WorkspaceDeletes # {}
    /\ remote.workspace
    /\ raised.phase # "security"
    /\ outcome.errors = <<raised>>

\* ------------------------------------------------------------------------
\* What delete_old_items touches (workspace_item_utilities.py lines
\* 173-247).
\* ------------------------------------------------------------------------
\* The listed item that a request of the log addresses
ListedAs(r) ==
    \E k \in 1..Len(frame.items) :
        /\ frame.items[k].id = r.id
        /\ frame.items[k].type = r.type
        /\ frame.items[k].displayName = r.name

\* The items delete_old_items may delete
Deletable(type, name) ==
    \/ type = "Environment"
    \/ type = "DataPipeline" /\ name \in PipelineNames

DeleteOldItemsStep ==
    pc \in {"delete_environments", "delete_pipelines"} =>
        /\ \A i \in (Len(log) + 1)..Len(log') :
              /\ log'[i].call = "delete"
              /\ ListedAs(log'[i])
              /\ Deletable(log'[i].type, log'[i].name)
        /\ \A k \in 1..Len(remote.items) :
              ~Deletable(remote.items[k].type, remote.items[k].displayName) =>
                  \E j \in 1..Len(remote'.items) : remote'.items[j] = remote.items[k]

IdAs(lt, id) ==
    IF id = UnknownId THEN UnknownId
    ELSE IF IsDeployed(lt) THEN DeployedGuid(id[2]) ELSE LogicalId(id[2])

\* The dict of the same pipelines with their references written for lt
PipelineDictAs(lt) ==
    [p \in Keys |->
        [name |-> p,
         content |-> PipelineContent([i \in 1..Len(pipeline_refs[p]) |->
                                         IdAs(lt, pipeline_refs[p][i])])]]

CreationSort == sort_datapipelines(PipelineDictAs("Repository"), "Repository", SortTable("Repository"))
DeletionSort == sort_datapipelines(PipelineDictAs("Deployed"), "Deployed", SortTable("Deployed"))

\* C40: for an acyclic graph whose references stay inside the dict, both
\* sorts succeed and the reversed creation-mode order is the deletion-mode
\* order of the same pipelines; the sort that was called returned its one.
C40_ReverseAgrees ==
    (SortCalled /\ ~Cyclic /\ ClosedGraph) =>
        /\ CreationSort.status = "ok"
        /\ DeletionSort.status = "ok"
        /\ Reverse(CreationSort.order) = DeletionSort.order
        /\ sorted = (IF IsDeployed(arg_lookup_type) THEN DeletionSort ELSE CreationSort)

\* A sort of three pipelines with a chain and an independent pipeline was
\* called.
C40_Witness ==
    /\ SortCalled /\ ~Cyclic /\ ClosedGraph
    /\ Cardinality(Keys) = 3
    /\ Cardinality(RefEdges) = 2
    /\ Len(DeletionSort.order) = 3
    /\ DeletionSort.order # <<3, 2, 1>>
====
